---- MODULE Spec2Model ----
(***************************************************************************)
(* Cassowary, a CHIP-8 emulator: the processor (cpu.rs), its instruction   *)
(* decoder (instructions.rs), the memory (memory.rs), the display          *)
(* (display.rs), the keyboard (keyboard.rs), the timers (timer.rs) and the *)
(* program loader (progloader.rs), as a state machine.  One run of         *)
(* Cpu::run is one behaviour: every step fetches the word at the program   *)
(* counter, decodes it and executes the handler of the decoded             *)
(* instruction, while the tick loop of each timer runs beside it.          *)
(***************************************************************************)
EXTENDS Integers, Sequences, FiniteSets, TLC

VARIABLES
    registers,  \* Cpu.registers: [u8; 16]
    pc,         \* Cpu.pc
    sp,         \* Cpu.sp
    index,      \* Cpu.index
    stack,      \* Cpu.stack: [MemAddr; 16]
    mem,        \* Memory
    display,    \* Display: 32 rows of 64 pixels
    pressed,    \* KeyBoard.pressed: Option<u8>, <<>> for None and <<k>> for Some(k)
    delay,      \* the DelayTimer's Timer: its counter and its channel of updates
    sound,      \* the SoundSystem's Timer
    status,     \* "loading" and "loaded" or "load_err" for load_from_hex; for Cpu::run
                \* "running", "blocked", or how it ended: "ok", "err", "panic"
    error,      \* the CpuError that Cpu::run returned
    decoded,    \* instr of Cpu::run: the Instruction that decode returned last
    hex_lines   \* what hex_to_bin made of hex_def and load_from_hex has yet to load

vars == <<registers, pc, sp, index, stack, mem, display, pressed, delay, sound,
          status, error, decoded, hex_lines>>
\* What the processor thread owns or borrows for the length of the run.
cpuVars ==
    <<registers, pc, sp, index, stack, mem, display, pressed, status, error, decoded>>

(***************************************************************************)
(* Sizes and constants of the program.                                     *)
(***************************************************************************)
MEM_SIZE == 4096
NUM_REGS == 16
STACK_SIZE == 16
COND_REG == 15
\* MemAddr is usize: checked_add fails only above usize::MAX.  The value is
\* the largest one the model checker's integers hold; usize::MAX is no
\* smaller on a 32-bit or 64-bit target.
USIZE_MAX == 2147483647
\* KeyBoard::new starts with the key b'q' pressed.
KEY_Q == 113
WIDTH == 64
HEIGHT == 32
HEX_SPRITE_BASE == 256
HEX_SPRITE_HEIGHT == 5

Byte == 0..255
RegIds == 0..(NUM_REGS - 1)

(***************************************************************************)
(* u8 arithmetic.                                                          *)
(***************************************************************************)
\* u8::overflowing_add: the wrapped sum and whether it overflowed.
overflowing_add(a, b) == [res |-> (a + b) % 256, overflowed |-> a + b > 255]

\* u8::overflowing_sub: the wrapped difference and whether it borrowed.
overflowing_sub(a, b) == [res |-> (a - b + 256) % 256, overflowed |-> a < b]

\* u8::wrapping_add.
wrapping_add(a, b) == (a + b) % 256

RECURSIVE Bitwise(_, _, _, _)
\* A bitwise operation on the low n bits of a and b; f is its truth table,
\* indexed by the two bits plus one.
Bitwise(f, a, b, n) ==
    IF n = 0 THEN 0
    ELSE f[(a % 2) + 1][(b % 2) + 1] + 2 * Bitwise(f, a \div 2, b \div 2, n - 1)

\* The u8 operators &, | and ^.
BitAnd(a, b) == Bitwise(<<<<0, 0>>, <<0, 1>>>>, a, b, 8)
BitOr(a, b) == Bitwise(<<<<0, 1>>, <<1, 1>>>>, a, b, 8)
BitXor(a, b) == Bitwise(<<<<0, 1>>, <<1, 0>>>>, a, b, 8)

\* The u8 operators >> 1 and << 1 (the bit shifted past the width is dropped).
Shr1(a) == a \div 2
Shl1(a) == (a * 2) % 256

(***************************************************************************)
(* memory.rs: Memory([u8; 4096]).  The array is held as the function from  *)
(* the addresses of its nonzero bytes to those bytes: every address below  *)
(* 4096 that is not in its domain holds 0, so equal arrays are equal       *)
(* functions.  An accessor returns a record: Ok (with its value), Err for  *)
(* MemoryError::OutOfBounds, or Panic where the code indexes the array     *)
(* past its end.                                                           *)
(***************************************************************************)
\* self.0[addr], for addr < 4096
byte_at(m, addr) == IF addr \in DOMAIN m THEN m[addr] ELSE 0

\* self.0[addr] = value, for addr < 4096
with_byte(m, addr, value) ==
    IF value = 0 THEN [a \in DOMAIN m \ {addr} |-> m[a]]
    ELSE [a \in DOMAIN m \cup {addr} |-> IF a = addr THEN value ELSE m[a]]

\* Memory::new: [0; 4096]
MemoryNew == [a \in {} |-> 0]

\* Memory::load_byte
load_byte(m, addr) ==
    IF addr >= MEM_SIZE THEN [kind |-> "Err"]
    ELSE [kind |-> "Ok", val |-> byte_at(m, addr)]

\* Memory::store_byte
store_byte(m, addr, value) ==
    IF addr >= MEM_SIZE THEN [kind |-> "Err"]
    ELSE [kind |-> "Ok", mem |-> with_byte(m, addr, value)]

\* Memory::load_u16: only addr is checked; the low byte is read at addr + 1,
\* an index out of the array's range when addr = 4095.
load_u16(m, addr) ==
    IF addr >= MEM_SIZE THEN [kind |-> "Err"]
    ELSE IF addr + 1 >= MEM_SIZE THEN [kind |-> "Panic"]
    ELSE [kind |-> "Ok", val |-> byte_at(m, addr) * 256 + byte_at(m, addr + 1)]

\* self.0[start..(start + data.len())].copy_from_slice(data)
copy_from_slice(m, start, data) ==
    LET span == {start + i - 1 : i \in 1..Len(data)}
        nonzero == {start + i - 1 : i \in {j \in 1..Len(data) : data[j] # 0}}
    IN [a \in (DOMAIN m \ span) \cup nonzero |->
           IF a \in span THEN data[a - start + 1] ELSE m[a]]

\* A block write that checks only where the block starts.
set_mem_from_checks_start(m, start, data) ==
    IF start >= MEM_SIZE THEN [kind |-> "Err", mem |-> m]
    ELSE [kind |-> "Ok", mem |-> copy_from_slice(m, start, data)]

\* Memory::set_mem_from
set_mem_from(m, start, data) ==
    IF start >= MEM_SIZE \/ start + Len(data) > MEM_SIZE THEN [kind |-> "Err", mem |-> m]
    ELSE [kind |-> "Ok", mem |-> copy_from_slice(m, start, data)]

(***************************************************************************)
(* instructions.rs: Instruction::decode.  An instruction is a record: its  *)
(* variant in op, and the operand fields of that variant.                  *)
(***************************************************************************)
\* (opcode & 0xF000) >> 12
OpCls(opcode) == (opcode \div 4096) % 16
\* (opcode & 0x0F00) >> 8
FieldX(opcode) == (opcode \div 256) % 16
\* (opcode & 0x00F0) >> 4
FieldY(opcode) == (opcode \div 16) % 16
\* opcode & 0x000F, opcode & 0x00FF, opcode & 0x0FFF
FieldN(opcode) == opcode % 16
FieldNN(opcode) == opcode % 256
FieldNNN(opcode) == opcode % 4096

Unsupported(opcode) == [op |-> "Unsupported", opcode |-> opcode]

\* Before Cpu::run has decoded a word.
NoInstruction == [op |-> "none"]

\* The arm reached by unreachable!(): decode panics.
Unreachable == [op |-> "unreachable"]

\* An inner match that has no arm for class 7.
decode_x_imm_without_add(op_cls, x, imm) ==
    CASE op_cls = 3 -> [op |-> "SkipIfEqX", x |-> x, imm |-> imm]
      [] op_cls = 4 -> [op |-> "SkipIfNeX", x |-> x, imm |-> imm]
      [] op_cls = 6 -> [op |-> "AssignXImm", x |-> x, imm |-> imm]
      [] OTHER -> Unreachable

\* The inner match with an immediate masked by 0x000F.
decode_x_imm_low_nibble(op_cls, x, imm) ==
    CASE op_cls = 3 -> [op |-> "SkipIfEqX", x |-> x, imm |-> imm % 16]
      [] op_cls = 4 -> [op |-> "SkipIfNeX", x |-> x, imm |-> imm % 16]
      [] op_cls = 6 -> [op |-> "AssignXImm", x |-> x, imm |-> imm % 16]
      [] op_cls = 7 -> [op |-> "AddXImm", x |-> x, imm |-> imm % 16]
      [] OTHER -> Unreachable

\* The arm 0x3 | 0x4 | 0x6 | 0x7 of decode: the inner match on op_cls.
decode_x_imm(op_cls, x, imm) ==
    CASE op_cls = 3 -> [op |-> "SkipIfEqX", x |-> x, imm |-> imm]
      [] op_cls = 4 -> [op |-> "SkipIfNeX", x |-> x, imm |-> imm]
      [] op_cls = 6 -> [op |-> "AssignXImm", x |-> x, imm |-> imm]
      [] op_cls = 7 -> [op |-> "AddXImm", x |-> x, imm |-> imm]
      [] OTHER -> Unreachable

\* A match on the whole word that takes SYS NNN for a jump.
decode_class_0_sys_jumps(opcode) ==
    IF opcode = \h0000 THEN [op |-> "Halt"]
    ELSE IF opcode = \h00E0 THEN [op |-> "DispClear"]
    ELSE IF opcode = \h00EE THEN [op |-> "Ret"]
    ELSE [op |-> "Jump", addr |-> FieldNNN(opcode)]

\* The arm 0x0 of decode: the match on the whole word.
decode_class_0(opcode) ==
    IF opcode = \h0000 THEN [op |-> "Halt"]
    ELSE IF opcode = \h00E0 THEN [op |-> "DispClear"]
    ELSE IF opcode = \h00EE THEN [op |-> "Ret"]
    ELSE [op |-> "NoOp", opcode |-> opcode]

\* The arm 0xE of decode: the match on the low byte.
decode_class_e(opcode, x) ==
    LET op == FieldNN(opcode)
    IN CASE op = \h9E -> [op |-> "SkipIfKeyEqX", x |-> x]
         [] op = \hA1 -> [op |-> "SkipIfKeyNeX", x |-> x]
         [] OTHER -> Unsupported(opcode)

\* A match on the low byte that ignores what it does not know.
decode_class_f_ignores_unknown(opcode, x) ==
    LET op == FieldNN(opcode)
    IN CASE op = \h07 -> [op |-> "GetDelayX", x |-> x]
         [] op = \h0A -> [op |-> "AwaitKeyX", x |-> x]
         [] op = \h15 -> [op |-> "SetDelayX", x |-> x]
         [] op = \h18 -> [op |-> "SetSoundX", x |-> x]
         [] op = \h1E -> [op |-> "AddIX", x |-> x]
         [] op = \h29 -> [op |-> "SpriteAddrIX", x |-> x]
         [] op = \h33 -> [op |-> "DumpBcdIX", x |-> x]
         [] op = \h55 -> [op |-> "RegDumpIX", x |-> x]
         [] op = \h65 -> [op |-> "RegLoadIX", x |-> x]
         [] OTHER -> IF opcode = \hF000 THEN [op |-> "Halt"]
                     ELSE [op |-> "NoOp", opcode |-> opcode]

\* The arm 0xF of decode: the match on the low byte, and in its last arm the
\* match on the whole word.
decode_class_f(opcode, x) ==
    LET op == FieldNN(opcode)
    IN CASE op = \h07 -> [op |-> "GetDelayX", x |-> x]
         [] op = \h0A -> [op |-> "AwaitKeyX", x |-> x]
         [] op = \h15 -> [op |-> "SetDelayX", x |-> x]
         [] op = \h18 -> [op |-> "SetSoundX", x |-> x]
         [] op = \h1E -> [op |-> "AddIX", x |-> x]
         [] op = \h29 -> [op |-> "SpriteAddrIX", x |-> x]
         [] op = \h33 -> [op |-> "DumpBcdIX", x |-> x]
         [] op = \h55 -> [op |-> "RegDumpIX", x |-> x]
         [] op = \h65 -> [op |-> "RegLoadIX", x |-> x]
         [] op = \h17 -> [op |-> "NoOp", opcode |-> opcode]
         [] OTHER -> IF opcode = \hF000 THEN [op |-> "Halt"]
                     ELSE Unsupported(opcode)

decode(opcode) ==
    LET op_cls == OpCls(opcode)
        x == FieldX(opcode)
        y == FieldY(opcode)
    IN CASE op_cls = 0 -> decode_class_0(opcode)
         [] op_cls = 1 -> [op |-> "Jump", addr |-> FieldNNN(opcode)]
         [] op_cls = 2 -> [op |-> "Call", addr |-> FieldNNN(opcode)]
         [] op_cls \in {3, 4, 6, 7} -> decode_x_imm(op_cls, x, FieldNN(opcode))
         [] op_cls = 5 ->
              IF FieldN(opcode) = 0 THEN [op |-> "SkipIfEqXY", x |-> x, y |-> y]
              ELSE Unsupported(opcode)
         [] op_cls = 8 ->
              LET op == FieldN(opcode)
              IN CASE op = 0 -> [op |-> "AssignXY", x |-> x, y |-> y]
                   [] op = 1 -> [op |-> "OrXY", x |-> x, y |-> y]
                   [] op = 2 -> [op |-> "AndXY", x |-> x, y |-> y]
                   [] op = 3 -> [op |-> "XorXY", x |-> x, y |-> y]
                   [] op = 4 -> [op |-> "AddXY", x |-> x, y |-> y]
                   [] op = 5 -> [op |-> "SubXY", x |-> x, y |-> y]
                   [] op = 6 -> [op |-> "Shr1X", x |-> x]
                   [] op = 7 -> [op |-> "SubYX", x |-> x, y |-> y]
                   [] op = 14 -> [op |-> "Shl1X", x |-> x]
                   [] OTHER -> Unsupported(opcode)
         [] op_cls = 9 ->
              IF FieldN(opcode) = 0 THEN [op |-> "SkipIfNeXY", x |-> x, y |-> y]
              ELSE Unsupported(opcode)
         [] op_cls = 10 -> [op |-> "SetI", addr |-> FieldNNN(opcode)]
         [] op_cls = 11 -> [op |-> "JumpV0", addr |-> FieldNNN(opcode)]
         [] op_cls = 12 -> [op |-> "RandX", x |-> x, imm |-> FieldNN(opcode)]
         [] op_cls = 13 -> [op |-> "DispDraw", x |-> x, y |-> y, imm |-> FieldN(opcode)]
         [] op_cls = 14 -> decode_class_e(opcode, x)
         [] op_cls = 15 -> decode_class_f(opcode, x)
         [] OTHER -> Unsupported(opcode)

(***************************************************************************)
(* display.rs: Display([[u8; 64]; 32]).  The grid is held as the function  *)
(* from the <<row, column>> of its nonzero pixels to their values: every   *)
(* other pixel is 0.  Display::refresh prints the grid and changes         *)
(* nothing.                                                                *)
(***************************************************************************)
\* self.0[row][col]
pixel_at(d, row, col) == IF <<row, col>> \in DOMAIN d THEN d[<<row, col>>] ELSE 0

\* self.0[row][col] = value
with_pixel(d, row, col, value) ==
    IF value = 0 THEN [p \in DOMAIN d \ {<<row, col>>} |-> d[p]]
    ELSE [p \in DOMAIN d \cup {<<row, col>>} |->
             IF p = <<row, col>> THEN value ELSE d[p]]

\* Display::new: [[0; WIDTH]; HEIGHT]
DisplayNew == [p \in {} |-> 0]

\* A clear that fills the first row only.
clear_first_row(d) == [p \in {q \in DOMAIN d : q[1] # 0} |-> d[p]]

\* Display::clear: every row is filled with 0
clear(d) == [p \in {} |-> 0]

RECURSIVE reverse_bits_n(_, _)
\* The low n bits of b in reverse order.
reverse_bits_n(b, n) ==
    IF n = 0 THEN 0
    ELSE (b % 2) * (2 ^ (n - 1)) + reverse_bits_n(b \div 2, n - 1)

\* u8::reverse_bits
reverse_bits(b) == reverse_bits_n(b, 8)

RECURSIVE draw_line_last_pixel(_, _, _, _, _, _)
\* An inner loop whose changed is what the pixel stored last did.
draw_line_last_pixel(d, changed, sprite_line, row, x, ci) ==
    IF ci >= 8 THEN [display |-> d, changed |-> changed]
    ELSE LET col == (x + ci) % WIDTH
             pixel == (sprite_line \div (2 ^ ci)) % 2
             old == pixel_at(d, row, col) = 1
         IN draw_line_last_pixel(with_pixel(d, row, col, pixel), old # (pixel = 1),
                                 sprite_line, row, x, ci + 1)

RECURSIVE draw_line(_, _, _, _, _, _)
\* The inner loop of Display::draw, from column offset ci on: each of the 8
\* pixels of the row is stored, and changed is set once a pixel differs.
draw_line(d, changed, sprite_line, row, x, ci) ==
    IF ci >= 8 THEN [display |-> d, changed |-> changed]
    ELSE LET col == (x + ci) % WIDTH
             pixel == (sprite_line \div (2 ^ ci)) % 2
             old == pixel_at(d, row, col) = 1
             now == IF ~changed THEN old # (pixel = 1) ELSE changed
         IN draw_line(with_pixel(d, row, col, pixel), now, sprite_line, row, x, ci + 1)

RECURSIVE draw_rows(_, _, _, _, _, _, _, _)
\* The outer loop of Display::draw, from sprite row ri on.
draw_rows(d, changed, m, x, y, start, height, ri) ==
    IF ri >= height THEN [kind |-> "Ok", display |-> d, changed |-> changed]
    ELSE LET b == load_byte(m, start + ri)
         IN IF b.kind = "Err" THEN [kind |-> "Err", display |-> d]
            ELSE LET line == draw_line(d, changed, reverse_bits(b.val),
                                       (y + ri) % HEIGHT, x, 0)
                 IN draw_rows(line.display, line.changed, m, x, y, start, height, ri + 1)

\* Display::draw
draw(d, x, y, height, start, m) ==
    draw_rows(d, FALSE, m, x % WIDTH, y % HEIGHT, start, height, 0)

(***************************************************************************)
(* keyboard.rs                                                             *)
(***************************************************************************)
\* KeyBoard::new
KeyBoardNew == <<KEY_Q>>

\* KeyBoard::press
press(k, key) == <<key>>

\* KeyBoard::get_key_pressed: self.pressed.unwrap_or(b'\0')
get_key_pressed(k) == IF k = <<>> THEN 0 ELSE k[1]

(***************************************************************************)
(* timer.rs: a Timer is its counter (ticks) and the channel of the values  *)
(* that set() sent and the tick loop has not yet received (updates).       *)
(***************************************************************************)
\* Timer::new
TimerNew == [ticks |-> 0, updates |-> <<>>]

\* Timer::get
timer_get(t) == t.ticks

\* Timer::set: updates_tx.send(ticks)
timer_set(t, ticks) == [t EXCEPT !.updates = Append(@, ticks)]

(***************************************************************************)
(* cpu.rs.  A handler takes the state it may touch as a record s (the Cpu  *)
(* fields, and the collaborators Cpu::run borrows) and returns an outcome: *)
(* Ok with the new state, Err with the state reached and the CpuError, or  *)
(* Panic where the code indexes an array past its end.                     *)
(***************************************************************************)
Ok(s) == [kind |-> "Ok", s |-> s]
Err(s, e) == [kind |-> "Err", s |-> s, err |-> e]
Panic(s) == [kind |-> "Panic", s |-> s]

\* enum CpuError
StackOverflow == [kind |-> "StackOverflow"]
StackUnderflow == [kind |-> "StackUnderflow"]
MemoryAddressOverflow == [kind |-> "MemoryAddressOverflow"]
IllegalInstruction(opcode) == [kind |-> "IllegalInstruction", opcode |-> opcode]
MemoryError == [kind |-> "MemoryError"]
Halt == [kind |-> "Halt"]
NoError == [kind |-> "None"]

\* Cpu::new
CpuNew == [registers |-> [r \in RegIds |-> 0], pc |-> 0, sp |-> 0, index |-> 0,
           stack |-> [i \in 0..(STACK_SIZE - 1) |-> 0]]

\* fn mem_addr_add: base.checked_add(offset)
mem_addr_add(base, offset) ==
    IF base + offset > USIZE_MAX THEN [kind |-> "Err"]
    ELSE [kind |-> "Ok", val |-> base + offset]

\* Cpu::set_condition
set_condition(s, condition) == [s EXCEPT !.registers[COND_REG] = condition]

\* Cpu::inc_pc
inc_pc(s) ==
    LET a == mem_addr_add(s.pc, 2)
    IN IF a.kind = "Err" THEN Err(s, MemoryAddressOverflow)
       ELSE Ok([s EXCEPT !.pc = a.val])

\* A skip that leaves the program counter where fetch put it.
skip_instruction_none(s) == Ok(s)

\* A skip of one byte.
skip_instruction_one_byte(s) == Ok([s EXCEPT !.pc = s.pc + 1])

\* Cpu::skip_instruction
skip_instruction(s) == inc_pc(s)

\* Cpu::push_stack: the guard is sp > 16, so sp = 16 reaches stack[16].
push_stack(s, addr) ==
    IF s.sp > STACK_SIZE THEN Err(s, StackOverflow)
    ELSE IF s.sp >= STACK_SIZE THEN Panic(s)
    ELSE Ok([s EXCEPT !.stack[s.sp] = addr, !.sp = s.sp + 1])

\* A pop that hands out the bottom entry when the stack is empty.
pop_stack_reads_bottom(s) ==
    IF s.sp <= 0 THEN [out |-> Ok(s), val |-> s.stack[0]]
    ELSE [out |-> Ok([s EXCEPT !.sp = s.sp - 1]), val |-> s.stack[s.sp - 1]]

\* Cpu::pop_stack: the outcome, and the address popped.
pop_stack(s) ==
    IF s.sp <= 0 THEN [out |-> Err(s, StackUnderflow)]
    ELSE [out |-> Ok([s EXCEPT !.sp = s.sp - 1]), val |-> s.stack[s.sp - 1]]

\* Cpu::fetch: the outcome, and the opcode fetched.
fetch(s) ==
    LET w == load_u16(s.mem, s.pc)
    IN IF w.kind = "Err" THEN [out |-> Err(s, MemoryError)]
       ELSE IF w.kind = "Panic" THEN [out |-> Panic(s)]
       ELSE [out |-> inc_pc(s), opcode |-> w.val]

\* Cpu::jump
jump(s, addr) == Ok([s EXCEPT !.pc = addr])

\* A call that saves its own target instead of the return address.
call_saves_target(s, addr) ==
    LET pushed == push_stack(s, addr)
    IN IF pushed.kind # "Ok" THEN pushed ELSE jump(pushed.s, addr)

\* Cpu::call
call(s, addr) ==
    LET pushed == push_stack(s, s.pc)
    IN IF pushed.kind # "Ok" THEN pushed ELSE jump(pushed.s, addr)

\* Cpu::jump_v0
jump_v0(s, offset) ==
    LET a == mem_addr_add(s.registers[0], offset)
    IN IF a.kind = "Err" THEN Err(s, MemoryAddressOverflow)
       ELSE Ok([s EXCEPT !.pc = a.val])

\* Cpu::ret
ret(s) ==
    LET popped == pop_stack(s)
    IN IF popped.out.kind # "Ok" THEN popped.out
       ELSE Ok([popped.out.s EXCEPT !.pc = popped.val])

\* Cpu::display_clear
display_clear(s) == Ok([s EXCEPT !.display = clear(s.display)])

\* An add that sets the flag before it stores the sum.
add_xy_flag_first(s, x, y) ==
    LET r == overflowing_add(s.registers[x], s.registers[y])
        flagged == set_condition(s, IF r.overflowed THEN 1 ELSE 0)
    IN Ok([flagged EXCEPT !.registers[x] = r.res])

\* Cpu::add_xy
add_xy(s, x, y) ==
    LET r == overflowing_add(s.registers[x], s.registers[y])
    IN Ok(set_condition([s EXCEPT !.registers[x] = r.res],
                        IF r.overflowed THEN 1 ELSE 0))

\* A subtraction whose flag is the borrow itself.
sub_xy_flag_is_borrow(s, x, y) ==
    LET r == overflowing_sub(s.registers[x], s.registers[y])
    IN Ok(set_condition([s EXCEPT !.registers[x] = r.res],
                        IF r.overflowed THEN 1 ELSE 0))

\* A subtraction that stops at 0 instead of wrapping.
sub_xy_saturating(s, x, y) ==
    LET r == overflowing_sub(s.registers[x], s.registers[y])
    IN Ok(set_condition([s EXCEPT !.registers[x] = IF r.overflowed THEN 0 ELSE r.res],
                        IF r.overflowed THEN 0 ELSE 1))

\* Cpu::sub_xy
sub_xy(s, x, y) ==
    LET r == overflowing_sub(s.registers[x], s.registers[y])
    IN Ok(set_condition([s EXCEPT !.registers[x] = r.res],
                        IF r.overflowed THEN 0 ELSE 1))

\* Cpu::sub_yx
sub_yx(s, x, y) ==
    LET r == overflowing_sub(s.registers[y], s.registers[x])
    IN Ok(set_condition([s EXCEPT !.registers[x] = r.res],
                        IF r.overflowed THEN 0 ELSE 1))

\* Cpu::and_xy
and_xy(s, x, y) ==
    Ok([s EXCEPT !.registers[x] = BitAnd(s.registers[x], s.registers[y])])

\* or_xy that also resets the flag register.
or_xy_resets_flag(s, x, y) ==
    Ok(set_condition([s EXCEPT !.registers[x] = BitOr(s.registers[x], s.registers[y])], 0))

\* Cpu::or_xy
or_xy(s, x, y) ==
    Ok([s EXCEPT !.registers[x] = BitOr(s.registers[x], s.registers[y])])

\* Cpu::xor_xy
xor_xy(s, x, y) ==
    Ok([s EXCEPT !.registers[x] = BitXor(s.registers[x], s.registers[y])])

\* Cpu::assign_xy
assign_xy(s, x, y) == Ok([s EXCEPT !.registers[x] = s.registers[y]])

\* Cpu::shr1_x
shr1_x(s, x) ==
    LET xv == s.registers[x]
        lsb == BitAnd(xv, 1)
    IN Ok(set_condition([s EXCEPT !.registers[x] = Shr1(xv)], lsb))

\* A left shift whose flag is the bit left in place at the top.
shl1_x_flag_after(s, x) ==
    LET xv == s.registers[x]
        msb == BitAnd(Shl1(xv), 128) \div 128
    IN Ok(set_condition([s EXCEPT !.registers[x] = Shl1(xv)], msb))

\* Cpu::shl1_x
shl1_x(s, x) ==
    LET xv == s.registers[x]
        msb == BitAnd(xv, 128) \div 128
    IN Ok(set_condition([s EXCEPT !.registers[x] = Shl1(xv)], msb))

\* An add-immediate that stores the immediate.
add_x_imm_stores(s, x, imm) == Ok([s EXCEPT !.registers[x] = imm])

\* Cpu::add_x_imm
add_x_imm(s, x, imm) ==
    Ok([s EXCEPT !.registers[x] = wrapping_add(s.registers[x], imm)])

\* Cpu::assign_x_imm
assign_x_imm(s, x, imm) == Ok([s EXCEPT !.registers[x] = imm])

\* Cpu::skip_if_ne_x
skip_if_ne_x(s, x, imm) ==
    IF s.registers[x] # imm THEN skip_instruction(s) ELSE Ok(s)

\* Cpu::skip_if_eq_x
skip_if_eq_x(s, x, imm) ==
    IF s.registers[x] = imm THEN skip_instruction(s) ELSE Ok(s)

\* Cpu::skip_if_eq_xy
skip_if_eq_xy(s, x, y) ==
    IF s.registers[x] = s.registers[y] THEN skip_instruction(s) ELSE Ok(s)

\* Cpu::skip_if_ne_xy
skip_if_ne_xy(s, x, y) ==
    IF s.registers[x] # s.registers[y] THEN skip_instruction(s) ELSE Ok(s)

\* Cpu::skip_if_key_eq_x
skip_if_key_eq_x(s, x) ==
    IF s.registers[x] = get_key_pressed(s.pressed) THEN skip_instruction(s) ELSE Ok(s)

\* Cpu::skip_if_key_ne_x
skip_if_key_ne_x(s, x) ==
    IF s.registers[x] # get_key_pressed(s.pressed) THEN skip_instruction(s) ELSE Ok(s)

\* An await that reads the key and leaves it pressed.
await_key_x_keeps_key(s, x) ==
    IF s.pressed = <<>> THEN [kind |-> "Blocked", s |-> s]
    ELSE Ok([s EXCEPT !.registers[x] = s.pressed[1]])

\* Cpu::await_key_x, with KeyBoard::await_key_press: pressed.take() when a
\* key is there.  With none the loop spins: the outcome is Blocked.
await_key_x(s, x) ==
    IF s.pressed = <<>> THEN [kind |-> "Blocked", s |-> s]
    ELSE Ok([s EXCEPT !.registers[x] = s.pressed[1], !.pressed = <<>>])

\* Cpu::rand_x; rnd is the byte Cpu::rand_byte drew.
rand_x(s, x, imm, rnd) == Ok([s EXCEPT !.registers[x] = BitAnd(rnd, imm)])

\* Cpu::get_delay_x
get_delay_x(s, x) == Ok([s EXCEPT !.registers[x] = timer_get(s.delay)])

\* Cpu::set_delay_x
set_delay_x(s, x) == Ok([s EXCEPT !.delay = timer_set(s.delay, s.registers[x])])

\* Cpu::set_sound_x
set_sound_x(s, x) == Ok([s EXCEPT !.sound = timer_set(s.sound, s.registers[x])])

\* Cpu::add_i_x
add_i_x(s, x) == Ok([s EXCEPT !.index = s.index + s.registers[x]])

\* Cpu::sprite_addr_i_x
sprite_addr_i_x(s, x) ==
    Ok([s EXCEPT !.index = HEX_SPRITE_BASE + s.registers[x] * HEX_SPRITE_HEIGHT])

RECURSIVE decimal(_)
\* The decimal digits of n, as characters (their ASCII codes).
decimal(n) ==
    IF n < 10 THEN <<48 + n>> ELSE Append(decimal(n \div 10), 48 + (n % 10))

RECURSIVE pad_zero(_, _)
\* The characters cs, with '0' in front up to the width w.
pad_zero(cs, w) == IF Len(cs) >= w THEN cs ELSE pad_zero(<<48>> \o cs, w)

\* format!("{:03}", v)
format_03(v) == pad_zero(decimal(v), 3)

\* A conversion that keeps the character code of the digit.
char_to_bcd_keeps_code(c) == c

\* fn char_to_bcd
char_to_bcd(c) == c - 48

RECURSIVE dump_bcd_from(_, _, _, _)
\* The loop of dump_bcd_i_x, from the digit at offset on.
dump_bcd_from(s, base, bcds, offset) ==
    IF offset >= Len(bcds) THEN Ok(s)
    ELSE LET a == mem_addr_add(base, offset)
         IN IF a.kind = "Err" THEN Err(s, MemoryAddressOverflow)
            ELSE LET st == store_byte(s.mem, a.val, bcds[offset + 1])
                 IN IF st.kind = "Err" THEN Err(s, MemoryError)
                    ELSE dump_bcd_from([s EXCEPT !.mem = st.mem], base, bcds, offset + 1)

\* Cpu::dump_bcd_i_x
dump_bcd_i_x(s, x) ==
    LET bcdx == format_03(s.registers[x])
        bcds == [i \in 1..Len(bcdx) |-> char_to_bcd(bcdx[i])]
    IN dump_bcd_from(s, s.index, bcds, 0)

RECURSIVE reg_dump_from(_, _, _, _)
\* The loop of reg_dump_i_x, from register r on.
reg_dump_from(s, base, x, r) ==
    IF r > x THEN Ok(s)
    ELSE LET a == mem_addr_add(base, r)
         IN IF a.kind = "Err" THEN Err(s, MemoryAddressOverflow)
            ELSE LET st == store_byte(s.mem, a.val, s.registers[r])
                 IN IF st.kind = "Err" THEN Err(s, MemoryError)
                    ELSE reg_dump_from([s EXCEPT !.mem = st.mem], base, x, r + 1)

\* reg_dump_i_x with the range 0..x in place of 0..=x.
reg_dump_i_x_exclusive(s, x) ==
    IF x = 0 THEN Ok(s) ELSE reg_dump_from(s, s.index, x - 1, 0)

\* Cpu::reg_dump_i_x
reg_dump_i_x(s, x) == reg_dump_from(s, s.index, x, 0)

RECURSIVE reg_load_from(_, _, _, _)
\* The loop of reg_load_i_x, from register r on.
reg_load_from(s, base, x, r) ==
    IF r > x THEN Ok(s)
    ELSE LET b == load_byte(s.mem, base + r)
         IN IF b.kind = "Err" THEN Err(s, MemoryError)
            ELSE reg_load_from([s EXCEPT !.registers[r] = b.val], base, x, r + 1)

\* Cpu::reg_load_i_x
reg_load_i_x(s, x) == reg_load_from(s, s.index, x, 0)

\* Cpu::set_i
set_i(s, addr) == Ok([s EXCEPT !.index = addr])

\* Cpu::display_draw
display_draw(s, x, y, imm) ==
    LET drawn == draw(s.display, s.registers[x], s.registers[y], imm, s.index, s.mem)
    IN IF drawn.kind = "Err" THEN Err([s EXCEPT !.display = drawn.display], MemoryError)
       ELSE Ok(set_condition([s EXCEPT !.display = drawn.display],
                             IF drawn.changed THEN 1 ELSE 0))

\* Cpu::execute; rnd is the byte Cpu::rand_byte draws if the handler asks.
execute(instr, s, rnd) ==
    CASE instr.op = "AssignXImm" -> assign_x_imm(s, instr.x, instr.imm)
      [] instr.op = "AddXImm" -> add_x_imm(s, instr.x, instr.imm)
      [] instr.op = "AssignXY" -> assign_xy(s, instr.x, instr.y)
      [] instr.op = "OrXY" -> or_xy(s, instr.x, instr.y)
      [] instr.op = "AndXY" -> and_xy(s, instr.x, instr.y)
      [] instr.op = "XorXY" -> xor_xy(s, instr.x, instr.y)
      [] instr.op = "AddXY" -> add_xy(s, instr.x, instr.y)
      [] instr.op = "SubXY" -> sub_xy(s, instr.x, instr.y)
      [] instr.op = "Shr1X" -> shr1_x(s, instr.x)
      [] instr.op = "SubYX" -> sub_yx(s, instr.x, instr.y)
      [] instr.op = "Shl1X" -> shl1_x(s, instr.x)
      [] instr.op = "SkipIfEqX" -> skip_if_eq_x(s, instr.x, instr.imm)
      [] instr.op = "SkipIfNeX" -> skip_if_ne_x(s, instr.x, instr.imm)
      [] instr.op = "SkipIfEqXY" -> skip_if_eq_xy(s, instr.x, instr.y)
      [] instr.op = "SkipIfNeXY" -> skip_if_ne_xy(s, instr.x, instr.y)
      [] instr.op = "Jump" -> jump(s, instr.addr)
      [] instr.op = "JumpV0" -> jump_v0(s, instr.addr)
      [] instr.op = "Call" -> call(s, instr.addr)
      [] instr.op = "SkipIfKeyEqX" -> skip_if_key_eq_x(s, instr.x)
      [] instr.op = "SkipIfKeyNeX" -> skip_if_key_ne_x(s, instr.x)
      [] instr.op = "GetDelayX" -> get_delay_x(s, instr.x)
      [] instr.op = "SetDelayX" -> set_delay_x(s, instr.x)
      [] instr.op = "SetSoundX" -> set_sound_x(s, instr.x)
      [] instr.op = "AwaitKeyX" -> await_key_x(s, instr.x)
      [] instr.op = "RandX" -> rand_x(s, instr.x, instr.imm, rnd)
      [] instr.op = "AddIX" -> add_i_x(s, instr.x)
      [] instr.op = "SetI" -> set_i(s, instr.addr)
      [] instr.op = "SpriteAddrIX" -> sprite_addr_i_x(s, instr.x)
      [] instr.op = "DumpBcdIX" -> dump_bcd_i_x(s, instr.x)
      [] instr.op = "RegDumpIX" -> reg_dump_i_x(s, instr.x)
      [] instr.op = "RegLoadIX" -> reg_load_i_x(s, instr.x)
      [] instr.op = "Ret" -> ret(s)
      [] instr.op = "Halt" -> Err(s, Halt)
      [] instr.op = "DispClear" -> display_clear(s)
      [] instr.op = "DispDraw" -> display_draw(s, instr.x, instr.y, instr.imm)
      [] instr.op = "NoOp" -> Ok(s)
      [] instr.op = "Unsupported" -> Err(s, IllegalInstruction(instr.opcode))

(***************************************************************************)
(* timer.rs: Timer::tick_loop, the thread of each Timer.                   *)
(***************************************************************************)
\* u8::saturating_sub
saturating_sub(a, b) == IF a - b < 0 THEN 0 ELSE a - b

\* A ticker arm that subtracts without a look at the counter, and wraps.
tick_arm_wraps(t) == [t EXCEPT !.ticks = (@ + 255) % 256]

\* The ticker arm of the select: the counter, when above 0, goes down by one.
tick_arm(t) ==
    IF t.ticks > 0 THEN [t EXCEPT !.ticks = saturating_sub(t.ticks, 1)] ELSE t

\* The updates_rx arm of the select: the oldest value sent becomes the counter.
update_arm(t) == [t EXCEPT !.ticks = Head(t.updates), !.updates = Tail(t.updates)]

(***************************************************************************)
(* progloader.rs: a program is a sequence of lines, each a start address   *)
(* and the 16-bit words (four hex digits each) that follow it.             *)
(***************************************************************************)
\* The bytes of a line's words, high byte first (hex_to_bin).
line_bytes(words) ==
    [i \in 1..(2 * Len(words)) |->
        IF i % 2 = 1 THEN words[(i + 1) \div 2] \div 256 ELSE words[i \div 2] % 256]

RECURSIVE load_lines(_, _, _)
\* The loop of load_from_hex, from line i on.
load_lines(lines, m, i) ==
    IF i > Len(lines) THEN [kind |-> "Ok", mem |-> m]
    ELSE LET r == set_mem_from(m, lines[i][1], line_bytes(lines[i][2]))
         IN IF r.kind = "Err" THEN r ELSE load_lines(lines, r.mem, i + 1)

\* progloader::load_from_hex
load_from_hex(lines, m) == load_lines(lines, m, 1)

(***************************************************************************)
(* The programs the model runs.  Each is loaded by load_from_hex into a    *)
(* new Memory, and run by a new Cpu.                                       *)
(***************************************************************************)
\* The opcodes that Instruction::decode maps to each instruction.
HALT == \h0000
CLS == \h00E0
RET == \h00EE
JP(addr) == \h1000 + addr
CALL(addr) == \h2000 + addr
SE(x, nn) == \h3000 + x * 256 + nn
SNE(x, nn) == \h4000 + x * 256 + nn
SEXY(x, y) == \h5000 + x * 256 + y * 16
LD(x, nn) == \h6000 + x * 256 + nn
ADD(x, nn) == \h7000 + x * 256 + nn
ALU(x, y, n) == \h8000 + x * 256 + y * 16 + n
SNEXY(x, y) == \h9000 + x * 256 + y * 16
LDI(addr) == \hA000 + addr
JPV0(addr) == \hB000 + addr
RND(x, nn) == \hC000 + x * 256 + nn
DRW(x, y, n) == \hD000 + x * 256 + y * 16 + n
SKP(x) == \hE09E + x * 256
SKNP(x) == \hE0A1 + x * 256
FX(x, nn) == \hF000 + x * 256 + nn

\* A program of one line at address 0, with the keyboard as KeyBoard::new left it.
At0(words) == [lines |-> <<<<0, words>>>>, pressed |-> KeyBoardNew]

\* The example of the specification: V1 <- 5, V1 <- V1 + 3, halt.
ExampleProgram == At0(<<\h6105, \h7103, \hF000>>)

\* Pairs of operand values: sums below, at and above 256, equal operands,
\* differences with and without a borrow, every bit position.
OperandPairs ==
    {<<0, 0>>, <<1, 255>>, <<255, 1>>, <<200, 100>>, <<100, 200>>,
     <<128, 128>>, <<3, 5>>, <<255, 255>>, <<85, 170>>}

\* Pairs of registers: two general ones, the same one twice, and the flag
\* register VF as the first, the second and both.
RegisterPairs == {<<1, 2>>, <<3, 3>>, <<15, 4>>, <<5, 15>>, <<15, 15>>, <<0, 14>>}

\* Two register-pair instructions of class 8 in a row.
AluTails == {<<4, 5>>, <<5, 7>>, <<7, 4>>, <<6, 14>>, <<14, 6>>, <<1, 2>>, <<3, 0>>}

\* VX <- a, VY <- b, two instructions on (VX, VY), halt.
AluProgram(x, y, a, b, t) ==
    At0(<<LD(x, a), LD(y, b), ALU(x, y, t[1]), ALU(x, y, t[2]), HALT>>)

\* Every pair of values in the chosen pairs of registers, and every pair of
\* registers with values that depend on the pair.
AluPrograms ==
    {AluProgram(xy[1], xy[2], ab[1], ab[2], t) :
        xy \in RegisterPairs, ab \in OperandPairs, t \in AluTails}
    \cup
    {AluProgram(x, y, (x * 37 + 90) % 256, (y * 53 + 60) % 256, t) :
        x \in RegIds, y \in RegIds, t \in AluTails}

\* VX <- a, VY <- b, an AddXY that sets the flag, then an instruction that
\* writes VX only (tail t of class 8), an AddXImm and an AssignXImm.
LogicProgram(x, y, a, b, t) ==
    At0(<<LD(x, a), LD(y, b), ALU(x, y, 4), ALU(x, y, t), ADD(x, b), LD(x, 9), HALT>>)

LogicPrograms ==
    {LogicProgram(xy[1], xy[2], ab[1], ab[2], t) :
        xy \in RegisterPairs, ab \in OperandPairs, t \in 0..3}

\* Every word of class 0 as the first word of a program, zero bytes behind it.
ClassZeroPrograms == {At0(<<w>>) : w \in 0..\hFFF}

\* The deepest nesting of subroutines among the programs.
MaxDepth == 17

\* Subroutines nested n deep: the main program at 0 calls the first and
\* halts, subroutine i at 16 * i calls the next and returns, the last one
\* only returns.
NestedCalls(n) ==
    [lines |-> [i \in 1..(n + 1) |->
                  IF i = 1 THEN <<0, <<CALL(16), HALT>>>>
                  ELSE IF i = n + 1 THEN <<16 * n, <<RET>>>>
                  ELSE <<16 * (i - 1), <<CALL(16 * i), RET>>>>],
     pressed |-> KeyBoardNew]

\* double_sum of main.rs, behind the jump to 0x200 that hex_to_decimal puts at 0.
DoubleSum ==
    [lines |-> <<<<0, <<JP(\h200)>>>>,
                 <<\h200, <<\h2100, \h2100, \h0000>>>>,
                 <<\h100, <<\h8014, \h8014, \h00EE>>>>>>,
     pressed |-> KeyBoardNew]

CallPrograms ==
    {NestedCalls(n) : n \in 1..MaxDepth}
    \cup {DoubleSum,
          At0(<<CALL(0)>>),                        \* a subroutine that calls itself
          At0(<<RET>>),                            \* a return with nothing to return to
          At0(<<LD(1, 9), LD(15, 1), RET>>),
          At0(<<LD(1, 9), CALL(7), HALT>>),        \* a call to an odd address
          At0(<<CALL(6), CALL(6), HALT, RET>>),    \* two calls in a row
          At0(<<CALL(4), HALT, RET, RET>>)}

\* The six skip instructions on (VX, VY), with the immediate b where the
\* instruction takes one.
SkipOpcodes(x, y, b) == {SE(x, b), SNE(x, b), SEXY(x, y), SNEXY(x, y), SKP(x), SKNP(x)}

\* Values to compare: equal, different, zero, and the key KeyBoard::new holds.
ComparePairs == {<<7, 7>>, <<7, 9>>, <<0, 0>>, <<0, 113>>, <<113, 113>>, <<113, 7>>}

\* VX <- a, VY <- b, a skip, two instructions that tell whether it skipped.
SkipProgram(x, y, a, b, skip, key) ==
    [lines |-> <<<<0, <<LD(x, a), LD(y, b), skip, LD(10, 1), LD(11, 2), HALT>>>>>>,
     pressed |-> key]

\* The same after AwaitKeyX has taken the key: no key is pressed.
SkipProgramNoKey(x, a, skip) ==
    At0(<<FX(12, \h0A), LD(x, a), skip, LD(10, 1), LD(11, 2), HALT>>)

\* A skip in the last words of the memory.
SkipAtEnd(addr, skip) ==
    [lines |-> <<<<0, <<JP(addr)>>>>, <<addr, <<skip>>>>>>, pressed |-> KeyBoardNew]

SkipPrograms ==
    UNION {{SkipProgram(xy[1], xy[2], ab[1], ab[2], skip, key) :
               skip \in SkipOpcodes(xy[1], xy[2], ab[2]) \cup SkipOpcodes(xy[1], xy[2], ab[1]),
               key \in {KeyBoardNew, press(KeyBoardNew, 7)}} :
           xy \in RegisterPairs, ab \in ComparePairs}
    \cup
    {SkipProgramNoKey(x, a, skip) : x \in {1, 15}, a \in {0, 7}, skip \in {SKP(1), SKNP(1), SKP(15), SKNP(15)}}
    \cup
    {SkipAtEnd(addr, skip) : addr \in {\hFFA, \hFFC, \hFFE}, skip \in {SE(0, 0), SNE(0, 0)}}

\* Programs that end at the edge of the memory, or past it.
EdgePrograms ==
    {At0(<<JP(\hFFF)>>),                    \* a fetch at 4095
     At0(<<JP(\hFFE)>>),                    \* a fetch of the last word
     At0(<<LD(0, 255), JPV0(\hFFF)>>),      \* a jump past the memory
     At0(<<LD(0, 1), JPV0(\hFFE)>>),        \* a jump to 4095
     At0(<<LD(0, 2), JPV0(\hFFE)>>),        \* a jump to 4096
     At0(<<LD(0, 6), JPV0(0), HALT, HALT>>),
     At0(<<JP(3), \h0060, \h0500>>),        \* a jump to an odd address
     At0(<<JP(0)>>)}                        \* a loop

\* Opcodes that no instruction is defined for, and the ones decoded as no-ops.
UnsupportedOpcodes ==
    {\h5001, \h512F, \h8008, \h812F, \h8AB9, \h9001, \h9ABC, \hE000, \hE19F, \hEFFF,
     \hF001, \hF100, \hF1FF, \hFFFF, \hF0FF}
NoOpOpcodes == {\h0001, \h0123, \h00E1, \h00EF, \h0FFF, \hF017, \hF317}

DecodePrograms ==
    {At0(<<LD(1, 9), op, ADD(1, 1), HALT>>) : op \in UnsupportedOpcodes \cup NoOpOpcodes}
    \cup {At0(<<LD(1, 9), \hF000>>), At0(<<LD(1, 9), \h0000>>), At0(<<>>)}

\* A sprite of three rows.
SpriteLine == <<\h300, <<\hF090, \h8100>>>>

\* Programs for the index register, the memory block instructions, the
\* random byte, the timers, the keyboard and the display.
DevicePrograms ==
    {At0(<<LDI(\h300), LD(1, 5), FX(1, \h1E), FX(1, \h29), HALT>>),
     At0(<<RND(1, \h0F), HALT>>),
     At0(<<LD(1, 2), FX(1, \h15), FX(2, \h07), FX(1, \h18), HALT>>),
     At0(<<FX(1, \h0A), FX(2, \h0A), HALT>>),
     At0(<<LDI(\h300), LD(0, 1), LD(1, 2), LD(2, 3), FX(2, \h55), LD(0, 0), LD(1, 0),
           LD(2, 0), FX(2, \h65), HALT>>),
     At0(<<LDI(\hFFE), LD(0, 1), LD(1, 2), LD(2, 3), FX(2, \h55), HALT>>),
     At0(<<LDI(\hFFE), FX(2, \h65), HALT>>),
     [lines |-> <<<<0, <<LDI(\h300), LD(1, 62), LD(2, 31), DRW(1, 2, 3), DRW(1, 2, 3),
                        CLS, HALT>>>>, SpriteLine>>,
      pressed |-> KeyBoardNew],
     At0(<<LDI(\hFFF), DRW(1, 2, 3), HALT>>)}
    \cup {At0(<<LD(1, v), LDI(a), FX(1, \h33), HALT>>) :
             v \in {0, 7, 42, 205, 255}, a \in {\h300, \hFFD, \hFFE, \hFFF}}
    \cup {At0(<<LD(1, v), LDI(\h300), FX(1, \h33), HALT>>) : v \in Byte}
    \cup {At0(<<LD(x, 205), LDI(\h300), FX(x, \h33), HALT>>) : x \in RegIds}

\* V0..V3 are set, the registers V0..Vx are dumped at a, V0..V3 are cleared
\* and V0..Vx are loaded from a again.
RegBlockWords(x, a) ==
    <<LD(0, 11), LD(1, 22), LD(2, 33), LD(3, 44), LDI(a), FX(x, \h55),
      LD(0, 0), LD(1, 0), LD(2, 0), LD(3, 0), FX(x, \h65), HALT>>

RegBlockPrograms ==
    {At0(RegBlockWords(x, a)) :
        x \in {0, 1, 2, 3, 15}, a \in {\h300, \hFF0, \hFFD, \hFFE, \hFFF}}

\* The sprite of SpriteLine (0xF0, 0x90, 0x81 at 0x300) or, at 0x400, a sprite
\* of zero bytes, drawn by DRW V1, V2, n at (x, y) after what the words of
\* before have drawn.
DrawProgram(before, sprite, x, y, n, after) ==
    [lines |-> <<<<0, before \o <<LDI(sprite), LD(1, x), LD(2, y), DRW(1, 2, n)>>
                         \o after \o <<HALT>>>>,
                 SpriteLine>>,
     pressed |-> KeyBoardNew]

\* Where the programs draw: inside the grid, across its right and bottom
\* edges, and with coordinates beyond the grid.
DrawPlaces == {<<0, 0>>, <<10, 5>>, <<62, 31>>, <<60, 30>>, <<130, 70>>}

\* What a program draws after its first sprite: nothing, the same sprite
\* again, a sprite of zero bytes, another sprite, the same sprite 3 columns on.
DrawAgain(k, x, n) ==
    CASE k = 0 -> <<>>
      [] k = 1 -> <<DRW(1, 2, n)>>
      [] k = 2 -> <<LDI(\h400), DRW(1, 2, n)>>
      [] k = 3 -> <<LDI(\h301), DRW(1, 2, 2)>>
      [] OTHER -> <<LD(1, x + 3), DRW(1, 2, n)>>

\* Programs that draw once, the same sprite twice, a sprite over another one
\* and a sprite of zero bytes over a drawn one, with every height up to 3.
DrawPrograms ==
    {DrawProgram(<<>>, sprite, xy[1], xy[2], n, DrawAgain(k, xy[1], n)) :
        sprite \in {\h300, \h400}, xy \in DrawPlaces, n \in 0..3, k \in 0..4}
    \cup {DrawProgram(<<LDI(\h301), LD(1, 61), LD(2, 30), DRW(1, 2, 2)>>,
                      \h300, xy[1], xy[2], 3, <<DRW(1, 2, 3)>>) : xy \in DrawPlaces}

\* Programs that draw and then clear the display, one of them in a
\* subroutine.
ClearPrograms ==
    {DrawProgram(<<>>, \h300, xy[1], xy[2], n, <<CLS>>) : xy \in DrawPlaces, n \in 0..3}
    \cup {[lines |-> <<<<0, <<LD(3, 9), CALL(6), HALT, LDI(\h300), DRW(1, 2, 3), CLS,
                             RET>>>>,
                       SpriteLine>>,
           pressed |-> KeyBoardNew]}

Setups ==
    {ExampleProgram} \cup AluPrograms \cup CallPrograms \cup SkipPrograms
    \cup EdgePrograms \cup DecodePrograms \cup DevicePrograms \cup DrawPrograms
    \cup RegBlockPrograms \cup LogicPrograms \cup ClassZeroPrograms \cup ClearPrograms

(***************************************************************************)
(* The run.                                                                *)
(***************************************************************************)
Init ==
    \E setup \in Setups :
        LET loaded == load_from_hex(setup.lines, MemoryNew)
        IN /\ loaded.kind = "Ok"
           /\ mem = loaded.mem
           /\ registers = CpuNew.registers
           /\ pc = CpuNew.pc
           /\ sp = CpuNew.sp
           /\ index = CpuNew.index
           /\ stack = CpuNew.stack
           /\ display = DisplayNew
           /\ pressed = setup.pressed
           /\ delay = TimerNew
           /\ sound = TimerNew
           /\ status = "running"
           /\ error = NoError
           /\ decoded = NoInstruction
           /\ hex_lines = <<>>

\* The state the processor works on.
Self ==
    [registers |-> registers, pc |-> pc, sp |-> sp, index |-> index, stack |-> stack,
     mem |-> mem, display |-> display, pressed |-> pressed, delay |-> delay,
     sound |-> sound]

\* Cpu::run, on the outcome of fetch or of execute: Halt ends the run with
\* Ok(()), any other error with Err(err), and Ok(()) continues the loop.  A
\* panic ends the run without a result, and a handler that blocks never
\* returns.
Return(out) ==
    /\ registers' = out.s.registers
    /\ pc' = out.s.pc
    /\ sp' = out.s.sp
    /\ index' = out.s.index
    /\ stack' = out.s.stack
    /\ mem' = out.s.mem
    /\ display' = out.s.display
    /\ pressed' = out.s.pressed
    /\ delay' = out.s.delay
    /\ sound' = out.s.sound
    /\ status' = CASE out.kind = "Ok" -> "running"
                   [] out.kind = "Err" -> IF out.err = Halt THEN "ok" ELSE "err"
                   [] out.kind = "Panic" -> "panic"
                   [] out.kind = "Blocked" -> "blocked"
    /\ error' = IF out.kind = "Err" /\ out.err # Halt THEN out.err ELSE error
    /\ hex_lines' = hex_lines

\* self.fetch(mem) at the program counter.
Fetched == fetch(Self)

\* self.fetch(mem)? fails: the run ends before any instruction is decoded.
FetchFails ==
    /\ status = "running"
    /\ LET fetched == Fetched
       IN fetched.out.kind # "Ok" /\ Return(fetched.out) /\ decoded' = decoded

\* The loop of Cpu::run fetches an instruction of the variant op.
Fetches(op) ==
    /\ status = "running"
    /\ LET fetched == Fetched
       IN fetched.out.kind = "Ok" /\ decode(fetched.opcode).op = op

\* The loop of Cpu::run executes the instruction it fetched; rnd is the byte
\* Cpu::rand_byte draws if the handler asks.
Executes(rnd) ==
    LET fetched == Fetched
    IN /\ decoded' = decode(fetched.opcode)
       /\ Return(execute(decoded', fetched.out.s, rnd))

ExecAssignXImm == Fetches("AssignXImm") /\ Executes(0)
ExecAddXImm == Fetches("AddXImm") /\ Executes(0)
ExecAssignXY == Fetches("AssignXY") /\ Executes(0)
ExecOrXY == Fetches("OrXY") /\ Executes(0)
ExecAndXY == Fetches("AndXY") /\ Executes(0)
ExecXorXY == Fetches("XorXY") /\ Executes(0)
ExecAddXY == Fetches("AddXY") /\ Executes(0)
ExecSubXY == Fetches("SubXY") /\ Executes(0)
ExecShr1X == Fetches("Shr1X") /\ Executes(0)
ExecSubYX == Fetches("SubYX") /\ Executes(0)
ExecShl1X == Fetches("Shl1X") /\ Executes(0)
ExecSkipIfEqX == Fetches("SkipIfEqX") /\ Executes(0)
ExecSkipIfNeX == Fetches("SkipIfNeX") /\ Executes(0)
ExecSkipIfEqXY == Fetches("SkipIfEqXY") /\ Executes(0)
ExecSkipIfNeXY == Fetches("SkipIfNeXY") /\ Executes(0)
ExecJump == Fetches("Jump") /\ Executes(0)
ExecJumpV0 == Fetches("JumpV0") /\ Executes(0)
ExecCall == Fetches("Call") /\ Executes(0)
ExecSkipIfKeyEqX == Fetches("SkipIfKeyEqX") /\ Executes(0)
ExecSkipIfKeyNeX == Fetches("SkipIfKeyNeX") /\ Executes(0)
ExecGetDelayX == Fetches("GetDelayX") /\ Executes(0)
ExecSetDelayX == Fetches("SetDelayX") /\ Executes(0)
ExecSetSoundX == Fetches("SetSoundX") /\ Executes(0)
ExecAwaitKeyX == Fetches("AwaitKeyX") /\ Executes(0)
ExecRandX == Fetches("RandX") /\ \E rnd \in Byte : Executes(rnd)
ExecAddIX == Fetches("AddIX") /\ Executes(0)
ExecSetI == Fetches("SetI") /\ Executes(0)
ExecSpriteAddrIX == Fetches("SpriteAddrIX") /\ Executes(0)
ExecDumpBcdIX == Fetches("DumpBcdIX") /\ Executes(0)
ExecRegDumpIX == Fetches("RegDumpIX") /\ Executes(0)
ExecRegLoadIX == Fetches("RegLoadIX") /\ Executes(0)
ExecRet == Fetches("Ret") /\ Executes(0)
ExecHalt == Fetches("Halt") /\ Executes(0)
ExecDispClear == Fetches("DispClear") /\ Executes(0)
ExecDispDraw == Fetches("DispDraw") /\ Executes(0)
ExecNoOp == Fetches("NoOp") /\ Executes(0)
ExecUnsupported == Fetches("Unsupported") /\ Executes(0)

\* The tick loop of the delay timer.
DelayTick == delay' = tick_arm(delay) /\ UNCHANGED <<cpuVars, sound, hex_lines>>
DelayUpdate ==
    delay.updates # <<>> /\ delay' = update_arm(delay) /\ UNCHANGED <<cpuVars, sound, hex_lines>>

\* The tick loop of the sound timer.
SoundTick == sound' = tick_arm(sound) /\ UNCHANGED <<cpuVars, delay, hex_lines>>
SoundUpdate ==
    sound.updates # <<>> /\ sound' = update_arm(sound) /\ UNCHANGED <<cpuVars, delay, hex_lines>>

Next ==
    \/ FetchFails
    \/ ExecAssignXImm
    \/ ExecAddXImm
    \/ ExecAssignXY
    \/ ExecOrXY
    \/ ExecAndXY
    \/ ExecXorXY
    \/ ExecAddXY
    \/ ExecSubXY
    \/ ExecShr1X
    \/ ExecSubYX
    \/ ExecShl1X
    \/ ExecSkipIfEqX
    \/ ExecSkipIfNeX
    \/ ExecSkipIfEqXY
    \/ ExecSkipIfNeXY
    \/ ExecJump
    \/ ExecJumpV0
    \/ ExecCall
    \/ ExecSkipIfKeyEqX
    \/ ExecSkipIfKeyNeX
    \/ ExecGetDelayX
    \/ ExecSetDelayX
    \/ ExecSetSoundX
    \/ ExecAwaitKeyX
    \/ ExecRandX
    \/ ExecAddIX
    \/ ExecSetI
    \/ ExecSpriteAddrIX
    \/ ExecDumpBcdIX
    \/ ExecRegDumpIX
    \/ ExecRegLoadIX
    \/ ExecRet
    \/ ExecHalt
    \/ ExecDispClear
    \/ ExecDispDraw
    \/ ExecNoOp
    \/ ExecUnsupported
    \/ DelayTick
    \/ DelayUpdate
    \/ SoundTick
    \/ SoundUpdate

Spec == Init /\ [][Next]_vars

(***************************************************************************)
(* The run with its timers under fair scheduling.  Each Timer has a thread *)
(* of its own (Timer::start_new) that loops over a select on the ticker,   *)
(* which is ready every 16 ms, and on the channel of updates: an arm that  *)
(* stays ready is taken.  The programs set and read the timers and do      *)
(* nothing else.                                                           *)
(***************************************************************************)
\* The largest value the polling programs set a timer to.
MaxTicks == 3

\* Set and read at once; the loop of timer_display_sprites (set the delay,
\* read it until it is 0); two sets in a row; a set over a running counter;
\* the largest value, set and left to run down; both timers.
TimerPrograms ==
    {At0(<<LD(1, 2), FX(1, \h15), FX(2, \h07), FX(1, \h18), HALT>>),
     At0(<<LD(4, MaxTicks), FX(4, \h15), FX(4, \h07), SE(4, 0), JP(4), HALT>>),
     At0(<<LD(1, MaxTicks), FX(1, \h15), LD(2, 1), FX(2, \h15), FX(3, \h07), HALT>>),
     At0(<<LD(1, MaxTicks), FX(1, \h15), FX(2, \h07), SE(2, MaxTicks), JP(4),
           LD(5, 1), FX(5, \h15), FX(6, \h07), HALT>>),
     At0(<<LD(1, 255), FX(1, \h15), HALT>>),
     At0(<<LD(3, 2), FX(3, \h18), LD(1, 1), FX(1, \h15), FX(2, \h07), HALT>>)}

InitTimer ==
    \E setup \in TimerPrograms :
        LET loaded == load_from_hex(setup.lines, MemoryNew)
        IN /\ loaded.kind = "Ok"
           /\ mem = loaded.mem
           /\ registers = CpuNew.registers
           /\ pc = CpuNew.pc
           /\ sp = CpuNew.sp
           /\ index = CpuNew.index
           /\ stack = CpuNew.stack
           /\ display = DisplayNew
           /\ pressed = setup.pressed
           /\ delay = TimerNew
           /\ sound = TimerNew
           /\ status = "running"
           /\ error = NoError
           /\ decoded = NoInstruction
           /\ hex_lines = <<>>

NextTimer ==
    \/ ExecAssignXImm
    \/ ExecSkipIfEqX
    \/ ExecJump
    \/ ExecGetDelayX
    \/ ExecSetDelayX
    \/ ExecSetSoundX
    \/ ExecHalt
    \/ DelayTick
    \/ DelayUpdate
    \/ SoundTick
    \/ SoundUpdate

SpecTimer ==
    /\ InitTimer
    /\ [][NextTimer]_vars
    /\ WF_vars(DelayTick)
    /\ WF_vars(DelayUpdate)
    /\ WF_vars(SoundTick)
    /\ WF_vars(SoundUpdate)

(***************************************************************************)
(* Instruction::decode on every word: each of the 65536 words is the first *)
(* word of a program, and Cpu::run fetches and decodes it.                 *)
(***************************************************************************)
Words == 0..65535

InitDecode ==
    \E w \in Words :
        LET loaded == load_from_hex(At0(<<w>>).lines, MemoryNew)
        IN /\ loaded.kind = "Ok"
           /\ mem = loaded.mem
           /\ registers = CpuNew.registers
           /\ pc = CpuNew.pc
           /\ sp = CpuNew.sp
           /\ index = CpuNew.index
           /\ stack = CpuNew.stack
           /\ display = DisplayNew
           /\ pressed = KeyBoardNew
           /\ delay = TimerNew
           /\ sound = TimerNew
           /\ status = "running"
           /\ error = NoError
           /\ decoded = NoInstruction
           /\ hex_lines = <<>>

\* let instr = Instruction::decode(self.fetch(mem)?), for the first word.
DecodeWord ==
    /\ status = "running"
    /\ decoded = NoInstruction
    /\ LET fetched == Fetched
       IN /\ fetched.out.kind = "Ok"
          /\ decoded' = decode(fetched.opcode)
          /\ pc' = fetched.out.s.pc
    /\ UNCHANGED <<registers, sp, index, stack, mem, display, pressed, delay, sound,
                   status, error, hex_lines>>

SpecDecode == InitDecode /\ [][DecodeWord]_vars


(***************************************************************************)
(* progloader::load_from_hex on a new Memory: two lines, the first of      *)
(* which fits; the second starts anywhere a four-digit address can name    *)
(* and has 1 to MaxData bytes (hex_to_bin makes no line without a byte).   *)
(***************************************************************************)
\* The most bytes of a line.
MaxData == 3

\* The lines of 1 to MaxData bytes, each 0 or 0xAB, from these addresses on.
LoadStarts == {0, 1, 4093, 4094, 4095, 4096, 4097, 65535}
LoadData == UNION {[1..n -> {0, \hAB}] : n \in 1..MaxData}
LoadLines == {<<start, data>> : start \in LoadStarts, data \in LoadData}

\* Lines that fit: at the start, in the middle and up to the last byte.
FirstLines == {<<0, <<1, 2, 3>>>>, <<4092, <<4, 5, 6, 7>>>>, <<4094, <<8>>>>}

InitLoad ==
    /\ hex_lines \in {<<first, second>> : first \in FirstLines, second \in LoadLines}
    /\ mem = MemoryNew
    /\ registers = CpuNew.registers
    /\ pc = CpuNew.pc
    /\ sp = CpuNew.sp
    /\ index = CpuNew.index
    /\ stack = CpuNew.stack
    /\ display = DisplayNew
    /\ pressed = KeyBoardNew
    /\ delay = TimerNew
    /\ sound = TimerNew
    /\ status = "loading"
    /\ error = NoError
    /\ decoded = NoInstruction

\* One turn of the loop of load_from_hex: mem.set_mem_from(addr, &data)?
LoadLine ==
    /\ status = "loading"
    /\ hex_lines # <<>>
    /\ LET r == set_mem_from(mem, hex_lines[1][1], hex_lines[1][2])
       IN /\ mem' = r.mem
          /\ IF r.kind = "Ok"
             THEN hex_lines' = Tail(hex_lines) /\ status' = "loading"
             ELSE hex_lines' = hex_lines /\ status' = "load_err"
    /\ UNCHANGED <<registers, pc, sp, index, stack, display, pressed, delay, sound,
                   error, decoded>>

\* load_from_hex returns Ok(()) after the last line.
LoadDone ==
    /\ status = "loading"
    /\ hex_lines = <<>>
    /\ status' = "loaded"
    /\ UNCHANGED <<registers, pc, sp, index, stack, mem, display, pressed, delay, sound,
                   error, decoded, hex_lines>>

NextLoad == LoadLine \/ LoadDone

SpecLoad == InitLoad /\ [][NextLoad]_vars

(***************************************************************************)
(* What the claims speak of.                                               *)
(***************************************************************************)
\* The big-endian word in the memory at addr.
OpcodeAt(addr) == byte_at(mem, addr) * 256 + byte_at(mem, addr + 1)

\* The loop of Cpu::run is about to fetch a word that the memory holds.
AboutToFetch == status = "running" /\ pc + 1 < MEM_SIZE

\* The word about to be fetched is a register-pair instruction of class 8
\* with the low nibble n.
AboutToAlu(n) ==
    AboutToFetch /\ OpCls(OpcodeAt(pc)) = 8 /\ FieldN(OpcodeAt(pc)) = n

\* The registers with VX set to value and then VF set to flag.
WithResultAndFlag(regs, x, value, flag) ==
    [[regs EXCEPT ![x] = value] EXCEPT ![COND_REG] = flag]

(***************************************************************************)
(* C1.  Cpu::run returns Ok(()) exactly when a Halt (0x0000 or 0xF000) was *)
(* executed; every other run that ends returns the error that fetch or the *)
(* handler raised, and an unsupported opcode yields IllegalInstruction     *)
(* with the word that was fetched.  A run that ends has a result: it does  *)
(* not end in a panic.                                                     *)
(***************************************************************************)
C1_RunReturnsOkOrFirstError ==
    /\ status \in {"running", "blocked", "ok", "err"}
    /\ status = "ok" => pc >= 2 /\ OpcodeAt(pc - 2) \in {\h0000, \hF000}
    /\ status = "err" <=> error # NoError
    /\ error.kind = "IllegalInstruction" =>
          /\ pc >= 2
          /\ error.opcode = OpcodeAt(pc - 2)
          /\ decode(error.opcode).op = "Unsupported"

\* C1, what the code does keep of it: a run that has returned is Ok after a
\* Halt and Err with an error otherwise, a Halt returns Ok(()) at once, and
\* once the run has ended the processor does nothing more.
C1_ReturnedRunsAreOkOrFirstError ==
    /\ [](status = "ok" => pc >= 2 /\ OpcodeAt(pc - 2) \in {\h0000, \hF000})
    /\ [](status = "err" <=> error # NoError)
    /\ [][(AboutToFetch /\ OpcodeAt(pc) \in {\h0000, \hF000}) => status' = "ok"]_cpuVars
    /\ [][status # "running" => UNCHANGED cpuVars]_cpuVars

(***************************************************************************)
(* C2.  A fresh Cpu with 0x6105, 0x7103, 0xF000 at the program counter     *)
(* runs to Ok(()) with V1 = 8 and every other register 0: V1 is 0, then 5, *)
(* then 8 as the program counter goes 0, 2, 4, and the run ends at 6.      *)
(***************************************************************************)
ExampleLoaded == OpcodeAt(0) = \h6105 /\ OpcodeAt(2) = \h7103 /\ OpcodeAt(4) = \hF000

C2_ExampleRun ==
    ExampleLoaded =>
        /\ status \in {"running", "ok"}
        /\ registers = [CpuNew.registers EXCEPT
                           ![1] = CASE pc = 0 -> 0 [] pc = 2 -> 5 [] OTHER -> 8]
        /\ status = "running" => pc \in {0, 2, 4}
        /\ status = "ok" => pc = 6

C2_Witness == ExampleLoaded /\ status = "ok" /\ registers[1] = 8

(***************************************************************************)
(* C3.  Calls at stack depths 0..15 succeed, and a Call at depth 16 (the   *)
(* 17th without a Ret) ends the run with Err(StackOverflow), the stack     *)
(* untouched.                                                              *)
(***************************************************************************)
AboutToCall == AboutToFetch /\ OpCls(OpcodeAt(pc)) = 2

C3_SeventeenthCallOverflows ==
    [][AboutToCall =>
          IF sp < STACK_SIZE THEN status' = "running" /\ sp' = sp + 1
          ELSE status' = "err" /\ error' = StackOverflow /\ stack' = stack]_cpuVars

(***************************************************************************)
(* C4.  A skip instruction fetched at p leaves the program counter at      *)
(* p + 4 when its condition holds and at p + 2 when it does not, and       *)
(* changes no register, no stack entry, not I, not the memory and not the  *)
(* display.  The key of the keyboard skips is the one get_key_pressed      *)
(* reports.                                                                *)
(***************************************************************************)
AboutToSkip ==
    /\ AboutToFetch
    /\ LET w == OpcodeAt(pc)
       IN \/ OpCls(w) \in {3, 4}
          \/ OpCls(w) \in {5, 9} /\ FieldN(w) = 0
          \/ OpCls(w) = 14 /\ FieldNN(w) \in {\h9E, \hA1}

SkipCondition ==
    LET w == OpcodeAt(pc)
        vx == registers[FieldX(w)]
        vy == registers[FieldY(w)]
        key == get_key_pressed(pressed)
    IN CASE OpCls(w) = 3 -> vx = FieldNN(w)
         [] OpCls(w) = 4 -> vx # FieldNN(w)
         [] OpCls(w) = 5 -> vx = vy
         [] OpCls(w) = 9 -> vx # vy
         [] OpCls(w) = 14 /\ FieldNN(w) = \h9E -> vx = key
         [] OTHER -> vx # key

C4_SkipAdvance ==
    [][AboutToSkip =>
          /\ pc' = pc + (IF SkipCondition THEN 4 ELSE 2)
          /\ status' = "running"
          /\ UNCHANGED <<registers, sp, index, stack, mem, display>>]_cpuVars

\* SE V1, 7 with V1 = 7 skipped LD VA, 1 and went on with LD VB, 2.
C4_Witness ==
    /\ status = "ok"
    /\ OpcodeAt(4) = SE(1, 7)
    /\ registers[1] = 7
    /\ registers[10] = 0
    /\ registers[11] = 2

(***************************************************************************)
(* C5.  A Call fetched at p pushes p + 2 and goes to its 12-bit target; a  *)
(* Ret goes to the address pushed last and not yet popped.  In subroutines *)
(* nested to any depth every Ret resumes behind its own Call, with the     *)
(* stack pointer the Call found.                                           *)
(***************************************************************************)
AboutToRet == AboutToFetch /\ OpcodeAt(pc) = \h00EE

\* The memory holds NestedCalls(n) for some n.
NestedLoaded == OpcodeAt(0) = CALL(16) /\ OpcodeAt(2) = HALT /\ OpcodeAt(16) \in {RET, CALL(32)}

\* In NestedCalls the subroutine at 16 * i runs at depth i: on entry (at
\* 16 * i) and behind its own call (at 16 * i + 2), and the stack holds the
\* addresses behind the calls of the subroutines above it.
NestedInvariant ==
    (NestedLoaded /\ status = "running") =>
        /\ pc % 16 \in {0, 2}
        /\ sp = pc \div 16
        /\ \A j \in 0..(sp - 1) : stack[j] = 16 * j + 2

C5_CallRetLifo ==
    /\ [][(AboutToCall /\ sp < STACK_SIZE) =>
             /\ pc' = FieldNNN(OpcodeAt(pc))
             /\ sp' = sp + 1
             /\ stack' = [stack EXCEPT ![sp] = pc + 2]]_cpuVars
    /\ [][(AboutToRet /\ sp > 0) =>
             /\ pc' = stack[sp - 1]
             /\ sp' = sp - 1
             /\ stack' = stack]_cpuVars
    /\ []NestedInvariant

\* Nested 16 deep, the run is back in the main program behind its call.
C5_Witness ==
    /\ NestedLoaded
    /\ OpcodeAt(16 * 16) = RET
    /\ status = "running"
    /\ pc = 2
    /\ sp = 0
    /\ stack[15] = 16 * 15 + 2

(***************************************************************************)
(* C6.  A fetch at 4095 or beyond ends the run with an error value: the    *)
(* accessors return OutOfBounds for whatever they cannot read below 4096.  *)
(***************************************************************************)
C6_FetchPastEndIsAnError ==
    [][(status = "running" /\ pc >= MEM_SIZE - 1) =>
          status' = "err" /\ error' = MemoryError]_cpuVars

(***************************************************************************)
(* C7.  AddXY sets VX to (VX + VY) mod 256 and then VF to 1 if VX + VY     *)
(* exceeds 255 and to 0 otherwise, for every x and y; no other register    *)
(* changes.                                                                *)
(***************************************************************************)
C7_AddXY ==
    [][AboutToAlu(4) =>
          LET x == FieldX(OpcodeAt(pc))
              y == FieldY(OpcodeAt(pc))
              sum == registers[x] + registers[y]
          IN registers' = WithResultAndFlag(registers, x, sum % 256,
                                            IF sum > 255 THEN 1 ELSE 0)]_cpuVars

\* VF <- 200, V4 <- 100, ADD VF, V4: VF holds the flag 1, not the sum 44.
C7_Witness ==
    /\ status = "running"
    /\ pc = 6
    /\ OpcodeAt(0) = LD(15, 200)
    /\ OpcodeAt(2) = LD(4, 100)
    /\ OpcodeAt(4) = ALU(15, 4, 4)
    /\ registers[15] = 1
    /\ registers[4] = 100

(***************************************************************************)
(* C8.  SubXY sets VX to (VX - VY) mod 256 and VF to 1 exactly when        *)
(* VX >= VY; SubYX sets VX to (VY - VX) mod 256 and VF to 1 exactly when   *)
(* VY >= VX; the operands are the values before the instruction, and VF    *)
(* is written last.                                                        *)
(***************************************************************************)
C8_SubXYSubYX ==
    /\ [][AboutToAlu(5) =>
             LET x == FieldX(OpcodeAt(pc))
                 vx == registers[x]
                 vy == registers[FieldY(OpcodeAt(pc))]
             IN registers' = WithResultAndFlag(registers, x, (vx - vy) % 256,
                                               IF vx >= vy THEN 1 ELSE 0)]_cpuVars
    /\ [][AboutToAlu(7) =>
             LET x == FieldX(OpcodeAt(pc))
                 vx == registers[x]
                 vy == registers[FieldY(OpcodeAt(pc))]
             IN registers' = WithResultAndFlag(registers, x, (vy - vx) % 256,
                                               IF vy >= vx THEN 1 ELSE 0)]_cpuVars

\* V1 <- 100, V2 <- 200, SUB V1, V2 borrowed: V1 = 156, VF = 0; then
\* SUBN V1, V2 did not: V1 = 200 - 156, VF = 1.
C8_Witness ==
    /\ status = "running"
    /\ pc = 8
    /\ OpcodeAt(0) = LD(1, 100)
    /\ OpcodeAt(2) = LD(2, 200)
    /\ OpcodeAt(4) = ALU(1, 2, 5)
    /\ OpcodeAt(6) = ALU(1, 2, 7)
    /\ registers[1] = 44
    /\ registers[15] = 1

(***************************************************************************)
(* C9.  Shr1X sets VF to bit 0 of the old VX and VX to the old VX divided  *)
(* by 2; Shl1X sets VF to bit 7 of the old VX and VX to (old VX * 2) mod   *)
(* 256.  With x = F the register ends as the bit shifted out.              *)
(***************************************************************************)
C9_Shifts ==
    /\ [][AboutToAlu(6) =>
             LET x == FieldX(OpcodeAt(pc))
                 vx == registers[x]
             IN registers' = WithResultAndFlag(registers, x, vx \div 2, vx % 2)]_cpuVars
    /\ [][AboutToAlu(14) =>
             LET x == FieldX(OpcodeAt(pc))
                 vx == registers[x]
             IN registers' = WithResultAndFlag(registers, x, (vx * 2) % 256,
                                               vx \div 128)]_cpuVars

\* VF <- 255, SHL VF: VF holds the bit shifted out, 1, not 254.
C9_Witness ==
    /\ status = "running"
    /\ pc = 6
    /\ OpcodeAt(0) = LD(15, 255)
    /\ OpcodeAt(4) = ALU(15, 4, 14)
    /\ registers[15] = 1

(***************************************************************************)
(* C10.  AddXY(x, y) and then SubXY(x, y) leave VX as it was before the    *)
(* AddXY.                                                                  *)
(***************************************************************************)
\* The registers of the instruction at 4.
AddSubX == FieldX(OpcodeAt(4))
AddSubY == FieldY(OpcodeAt(4))

\* The memory holds VX <- a, VY <- b, ADD VX, VY, SUB VX, VY.
AddThenSubLoaded ==
    /\ OpCls(OpcodeAt(0)) = 6 /\ FieldX(OpcodeAt(0)) = AddSubX
    /\ OpCls(OpcodeAt(2)) = 6 /\ FieldX(OpcodeAt(2)) = AddSubY
    /\ OpcodeAt(4) = ALU(AddSubX, AddSubY, 4)
    /\ OpcodeAt(6) = ALU(AddSubX, AddSubY, 5)

\* VX when that program reaches its ADD.
VxBeforeAdd == IF AddSubX = AddSubY THEN FieldNN(OpcodeAt(2)) ELSE FieldNN(OpcodeAt(0))

\* That program has just executed its SUB.
AddThenSubDone == AddThenSubLoaded /\ status = "running" /\ pc = 8

\* For every pair of registers.
C10_AddSubRestoresAnyPair == AddThenSubDone => registers[AddSubX] = VxBeforeAdd

\* C10, amended: for every pair of two different registers, neither of them
\* the flag register VF, AddXY(x, y) and then SubXY(x, y) leave VX as it was.
C10_AddSubRestoresDistinctNonFlag ==
    (AddThenSubDone /\ AddSubX # AddSubY /\ COND_REG \notin {AddSubX, AddSubY})
        => registers[AddSubX] = VxBeforeAdd

\* V1 <- 200, V2 <- 100: the ADD wrapped to 44, the SUB borrowed back to 200.
C10_Witness ==
    /\ AddThenSubDone
    /\ AddSubX = 1
    /\ AddSubY = 2
    /\ VxBeforeAdd = 200
    /\ registers[2] = 100
    /\ registers[1] = 200
    /\ registers[15] = 0

(***************************************************************************)
(* What a DispDraw about to be fetched addresses: the sprite of            *)
(* FieldN(opcode) bytes at I, drawn from column VX mod 64 and row VY mod   *)
(* 32 on.                                                                  *)
(***************************************************************************)
AboutToDraw == AboutToFetch /\ OpCls(OpcodeAt(pc)) = 13

\* The draw about to be fetched succeeds.
DrawnStep == AboutToDraw /\ status' = "running"

DrawX == registers[FieldX(OpcodeAt(pc))] % WIDTH
DrawY == registers[FieldY(OpcodeAt(pc))] % HEIGHT
DrawHeight == FieldN(OpcodeAt(pc))

\* Sprite row r and bit b (0 the leftmost) that would land on the pixel.
SpriteRowOf(row) == (row + HEIGHT - DrawY) % HEIGHT
SpriteBitOf(col) == (col + WIDTH - DrawX) % WIDTH

\* The pixel is one the draw addresses.
Touched(row, col) == SpriteRowOf(row) < DrawHeight /\ SpriteBitOf(col) < 8

\* Bit 7 - b of the sprite byte of the row, for the pixel the draw addresses.
SpriteBitAt(row, col) ==
    IF Touched(row, col)
    THEN (byte_at(mem, index + SpriteRowOf(row)) \div (2 ^ (7 - SpriteBitOf(col)))) % 2
    ELSE 0

\* Every byte of the sprite is zero.
ZeroSprite == \A r \in 0..(DrawHeight - 1) : byte_at(mem, index + r) = 0

(***************************************************************************)
(* C11.  A draw XORs the sprite onto the grid with wrap-around: the pixel  *)
(* at row (y + r) mod 32, column (x + b) mod 64 becomes its old value XOR  *)
(* bit 7 - b of the byte at I + r, and every other pixel keeps its value.  *)
(***************************************************************************)
C11_DrawXorsSprite ==
    [][DrawnStep =>
          \A row \in 0..(HEIGHT - 1), col \in 0..(WIDTH - 1) :
              pixel_at(display', row, col)
                  = (pixel_at(display, row, col) + SpriteBitAt(row, col)) % 2]_cpuVars

(***************************************************************************)
(* C12.  A draw of a sprite of zero bytes reports no collision (VF = 0)    *)
(* and leaves every pixel as it was, whatever the grid holds.              *)
(***************************************************************************)
C12_ZeroSpriteChangesNothing ==
    [][(DrawnStep /\ ZeroSprite) =>
          display' = display /\ registers'[COND_REG] = 0]_cpuVars

(***************************************************************************)
(* C13.  The same nonzero sprite drawn twice in a row at the same place    *)
(* leaves the grid as it was before the first draw, and the second draw    *)
(* reports a collision.                                                    *)
(***************************************************************************)
\* I <- 0x300, V1 <- x, V2 <- y, then twice DRW V1, V2, n with n >= 1, on the
\* grid of Display::new.
DrawTwiceLoaded ==
    /\ OpcodeAt(0) = LDI(\h300)
    /\ OpCls(OpcodeAt(2)) = 6 /\ FieldX(OpcodeAt(2)) = 1
    /\ OpCls(OpcodeAt(4)) = 6 /\ FieldX(OpcodeAt(4)) = 2
    /\ OpCls(OpcodeAt(6)) = 13 /\ FieldN(OpcodeAt(6)) >= 1
    /\ OpcodeAt(8) = OpcodeAt(6)

\* Both draws are done.
DrawTwiceDone == DrawTwiceLoaded /\ status = "running" /\ pc = 10

C13_DrawTwiceRestores ==
    DrawTwiceDone => display = DisplayNew /\ registers[COND_REG] = 1

(***************************************************************************)
(* C14.  After a draw VF is 1 if a pixel the draw addresses has another    *)
(* value than before the draw, and 0 if none has.                          *)
(***************************************************************************)
C14_FlagIffPixelChanged ==
    [][DrawnStep =>
          registers'[COND_REG] =
              IF \E row \in 0..(HEIGHT - 1), col \in 0..(WIDTH - 1) :
                     /\ Touched(row, col)
                     /\ pixel_at(display', row, col) # pixel_at(display, row, col)
              THEN 1 ELSE 0]_cpuVars

\* 0xF0, 0x90, 0x81 drawn twice across the corner of the grid: the second
\* draw found every pixel as it stores it and cleared the flag the first set.
C14_Witness ==
    /\ DrawTwiceDone
    /\ OpcodeAt(6) = DRW(1, 2, 3)
    /\ registers[1] = 62
    /\ registers[2] = 31
    /\ pixel_at(display, 31, 62) = 1
    /\ pixel_at(display, 1, 5) = 1
    /\ registers[COND_REG] = 0

(***************************************************************************)
(* C15.  DumpBcdIX stores the three decimal digits of VX, as the numbers   *)
(* 0..9, at I, I + 1 and I + 2, the hundreds first: 205 gives 2, 0, 5.  No *)
(* other byte of the memory, no register and not I changes.  The three     *)
(* addresses are in the memory.                                            *)
(***************************************************************************)
AboutToDumpBcd ==
    AboutToFetch /\ OpCls(OpcodeAt(pc)) = 15 /\ FieldNN(OpcodeAt(pc)) = \h33

C15_DumpBcdWritesThreeDigits ==
    [][(AboutToDumpBcd /\ index + 2 < MEM_SIZE) =>
          LET vx == registers[FieldX(OpcodeAt(pc))]
          IN /\ status' = "running"
             /\ \A a \in 0..(MEM_SIZE - 1) :
                    byte_at(mem', a) = CASE a = index -> vx \div 100
                                         [] a = index + 1 -> (vx \div 10) % 10
                                         [] a = index + 2 -> vx % 10
                                         [] OTHER -> byte_at(mem, a)
             /\ UNCHANGED <<registers, index, sp, stack, display>>]_cpuVars

\* V1 = 205 at I = 0x300.
C15_Witness ==
    /\ status = "ok"
    /\ OpcodeAt(4) = FX(1, \h33)
    /\ registers[1] = 205
    /\ index = \h300
    /\ byte_at(mem, \h300) = 2
    /\ byte_at(mem, \h301) = 0
    /\ byte_at(mem, \h302) = 5

(***************************************************************************)
(* C16.  Instruction::decode returns an Instruction for every one of the   *)
(* 65536 words and reaches no unreachable!() arm; a word that matches no   *)
(* pattern of its class, and only such a word, gives Unsupported with that *)
(* very word.                                                              *)
(***************************************************************************)
\* The variants of enum Instruction.
Variants ==
    {"AssignXImm", "AddXImm", "AssignXY", "OrXY", "AndXY", "XorXY", "AddXY", "SubXY",
     "Shr1X", "SubYX", "Shl1X", "DispClear", "DispDraw", "SkipIfEqX", "SkipIfNeX",
     "SkipIfEqXY", "SkipIfNeXY", "Jump", "JumpV0", "Call", "Ret", "NoOp",
     "SkipIfKeyEqX", "SkipIfKeyNeX", "GetDelayX", "AwaitKeyX", "SetDelayX",
     "SetSoundX", "SetI", "AddIX", "SpriteAddrIX", "DumpBcdIX", "RegDumpIX",
     "RegLoadIX", "RandX", "Halt", "Unsupported"}

\* The word matches no pattern: a low nibble other than 0 in the classes 5
\* and 9, a low nibble from 8 to D or F in class 8, a low byte that names no
\* instruction in the classes E and F (0xF000 is a halt).
Unmatched(w) ==
    \/ w \div 4096 \in {5, 9} /\ w % 16 # 0
    \/ w \div 4096 = 8 /\ w % 16 \in (8..13) \cup {15}
    \/ w \div 4096 = 14 /\ w % 256 \notin {\h9E, \hA1}
    \/ /\ w \div 4096 = 15
       /\ w % 256 \notin {\h07, \h0A, \h15, \h17, \h18, \h1E, \h29, \h33, \h55, \h65}
       /\ w # \hF000

C16_DecodeIsTotal ==
    decoded # NoInstruction =>
        LET w == OpcodeAt(pc - 2)
        IN /\ decoded.op \in Variants
           /\ Unmatched(w) <=> decoded.op = "Unsupported"
           /\ decoded.op = "Unsupported" => decoded = [op |-> "Unsupported", opcode |-> w]

\* 0x8128 has been decoded: no instruction of class 8 has the low nibble 8.
C16_Witness ==
    /\ decoded = [op |-> "Unsupported", opcode |-> \h8128]
    /\ OpcodeAt(0) = \h8128
    /\ pc = 2

(***************************************************************************)
(* C17.  set_mem_from(start, data) either stores all of data at start,     *)
(* start + 1, ... and returns Ok, or returns OutOfBounds and leaves every  *)
(* byte of the memory as it was; it fails exactly when an address of the   *)
(* span is not in 0..4095.                                                 *)
(***************************************************************************)
\* load_from_hex is about to hand its next line to set_mem_from.
AboutToLoad == status = "loading" /\ hex_lines # <<>>

\* Every address of the span is in the memory.
SpanFits(start, data) == \A i \in 1..Len(data) : start + i - 1 \in 0..(MEM_SIZE - 1)

AboutToAwait ==
    AboutToFetch /\ OpCls(OpcodeAt(pc)) = 15 /\ FieldNN(OpcodeAt(pc)) = \h0A

\* What AwaitKeyX does to the registers and the keyboard, and how the run
\* goes on.
AwaitTakesKey ==
    IF pressed = <<>>
    THEN status' = "blocked" /\ UNCHANGED <<registers, pressed>>
    ELSE /\ status' = "running"
         /\ registers' = [registers EXCEPT ![FieldX(OpcodeAt(pc))] = pressed[1]]
         /\ pressed' = <<>>

\* Blocked, the processor does nothing more, whatever the timers do.
BlockedForGood == [][status = "blocked" => UNCHANGED cpuVars]_vars

\* The program counter of a blocked AwaitKeyX is still on the instruction.
C18_AwaitBlocksOnInstruction ==
    /\ [][AboutToAwait =>
             /\ AwaitTakesKey
             /\ pc' = (IF pressed = <<>> THEN pc ELSE pc + 2)
             /\ UNCHANGED <<sp, index, stack, mem, display, error>>]_cpuVars
    /\ BlockedForGood

\* C18, amended: fetch has moved the program counter behind the AwaitKeyX
\* before it blocks, and there it stays: with no key pressed nothing else
\* changes and nothing more is fetched; with a key pressed the key goes to VX
\* and is taken from the keyboard, so that the next AwaitKeyX blocks.
C18_AwaitBlocksBehindInstruction ==
    /\ [][AboutToAwait =>
             /\ AwaitTakesKey
             /\ pc' = pc + 2
             /\ UNCHANGED <<sp, index, stack, mem, display, error>>]_cpuVars
    /\ BlockedForGood

\* The first AwaitKeyX took the 'q' of KeyBoard::new, the second blocks.
C18_Witness ==
    /\ status = "blocked"
    /\ OpcodeAt(0) = FX(1, \h0A)
    /\ OpcodeAt(2) = FX(2, \h0A)
    /\ pc = 4
    /\ registers[1] = KEY_Q
    /\ registers[2] = 0
    /\ pressed = <<>>

(***************************************************************************)
(* C19.  The stack pointer is in 0..16 in every state of a run, and a Ret  *)
(* with sp = 0 ends the run with StackUnderflow: sp, the stack and the     *)
(* registers stay as they were.                                            *)
(***************************************************************************)
C19_StackPointerInRange ==
    /\ [](sp \in 0..STACK_SIZE)
    /\ [][(AboutToRet /\ sp = 0) =>
             /\ status' = "err"
             /\ error' = StackUnderflow
             /\ UNCHANGED <<sp, stack, registers>>]_cpuVars

\* V1 <- 9, VF <- 1, then a Ret with nothing on the stack.
C19_Witness ==
    /\ status = "err"
    /\ error = StackUnderflow
    /\ OpcodeAt(4) = RET
    /\ pc = 6
    /\ sp = 0
    /\ registers[1] = 9
    /\ registers[15] = 1

(***************************************************************************)
(* C20.  The program counter is even in every state of a run, whatever the *)
(* program.                                                                *)
(***************************************************************************)
C20_PcAlwaysEven == pc % 2 = 0

\* The program counter and the return addresses on the stack are even.
EvenAddresses == pc % 2 = 0 /\ \A j \in 0..(sp - 1) : stack[j] % 2 = 0

\* The word about to be fetched is a Jump or a Call to an odd address, or a
\* JumpV0 with V0 + NNN odd.
AboutToGoOdd ==
    /\ AboutToFetch
    /\ LET w == OpcodeAt(pc)
       IN \/ OpCls(w) \in {1, 2} /\ FieldNNN(w) % 2 = 1
          \/ OpCls(w) = 11 /\ (FieldNNN(w) + registers[0]) % 2 = 1

\* C20, amended: the program counter, even at the start, is even as long as
\* the run executes no Jump or Call to an odd NNN and no JumpV0 with
\* V0 + NNN odd: fetch adds 2, a skip 2 more, and Ret goes behind a Call.
\* Such a jump is executed as any other and leaves the program counter odd.
C20_PcEvenUntilOddJump ==
    /\ [][(EvenAddresses /\ ~AboutToGoOdd) => EvenAddresses']_cpuVars
    /\ [][(AboutToGoOdd /\ status' = "running") => pc' % 2 = 1]_cpuVars

\* V0 <- 6 and JPV0 0: the run went on at 6 and halted there.
C20_Witness ==
    /\ status = "ok"
    /\ OpcodeAt(0) = LD(0, 6)
    /\ OpcodeAt(2) = JPV0(0)
    /\ registers[0] = 6
    /\ pc = 8

(***************************************************************************)
(* C21.  JumpV0 sets the program counter to V0 + NNN when the sum is an    *)
(* address of the 4096-byte memory.  When the sum is past the memory the   *)
(* instruction itself fails with MemoryAddressOverflow, and the program    *)
(* counter is not set to an address outside the memory.                    *)
(***************************************************************************)
AboutToJumpV0 == AboutToFetch /\ OpCls(OpcodeAt(pc)) = 11

\* The target of the JumpV0 about to be fetched.
JumpV0Target == registers[0] + FieldNNN(OpcodeAt(pc))

C21_JumpV0OverflowFails ==
    [][AboutToJumpV0 =>
          IF JumpV0Target < MEM_SIZE
          THEN status' = "running" /\ pc' = JumpV0Target
          ELSE /\ status' = "err"
               /\ error' = MemoryAddressOverflow
               /\ pc' < MEM_SIZE]_cpuVars

(***************************************************************************)
(* C22.  RegDumpIX(x) writes memory[I + i] = Vi for i in 0..x, and         *)
(* RegLoadIX(x) sets Vi = memory[I + i] for i in 0..x; I, the registers    *)
(* above x and the rest of the memory stay as they were.  A dump followed  *)
(* by a load with the same I therefore restores V0..Vx.  When I + x is     *)
(* past 4095 the instruction returns an error and the run ends.            *)
(***************************************************************************)
AboutToRegDump ==
    AboutToFetch /\ OpCls(OpcodeAt(pc)) = 15 /\ FieldNN(OpcodeAt(pc)) = \h55

AboutToRegLoad ==
    AboutToFetch /\ OpCls(OpcodeAt(pc)) = 15 /\ FieldNN(OpcodeAt(pc)) = \h65

\* The block I..I+x of the instruction about to be fetched is in the memory.
RegBlockFits == index + FieldX(OpcodeAt(pc)) < MEM_SIZE

\* The run of RegBlockWords(x, a) has halted.
RegBlockDone(x, a) ==
    /\ status = "ok"
    /\ pc = 24
    /\ \A k \in 1..12 : OpcodeAt(2 * (k - 1)) = RegBlockWords(x, a)[k]

C22_RegDumpLoadRoundTrip ==
    /\ [][AboutToRegDump =>
             LET x == FieldX(OpcodeAt(pc))
             IN IF RegBlockFits
                THEN /\ status' = "running"
                     /\ \A a \in 0..(MEM_SIZE - 1) :
                            byte_at(mem', a) =
                                IF a \in index..(index + x)
                                THEN registers[a - index] ELSE byte_at(mem, a)
                     /\ UNCHANGED <<registers, index, sp, stack, display>>
                ELSE status' = "err" /\ error' = MemoryError]_cpuVars
    /\ [][AboutToRegLoad =>
             LET x == FieldX(OpcodeAt(pc))
             IN IF RegBlockFits
                THEN /\ status' = "running"
                     /\ registers' = [r \in RegIds |->
                                         IF r <= x THEN byte_at(mem, index + r)
                                         ELSE registers[r]]
                     /\ UNCHANGED <<mem, index, sp, stack, display>>
                ELSE status' = "err" /\ error' = MemoryError]_cpuVars
    /\ [](\A x \in {0, 1, 2, 3} : \A a \in {\h300, \hFF0, \hFFD} :
             RegBlockDone(x, a) =>
                 \A i \in 0..3 : registers[i] = (IF i <= x THEN 11 * (i + 1) ELSE 0))

\* V0..V2 were dumped at 0xFFD, the last three bytes of the memory, cleared
\* and loaded again; V3, above x, is still cleared.
C22_Witness ==
    /\ RegBlockDone(2, \hFFD)
    /\ byte_at(mem, \hFFD) = 11
    /\ byte_at(mem, \hFFF) = 33
    /\ registers[0] = 11
    /\ registers[2] = 33
    /\ registers[3] = 0
    /\ index = \hFFD

(***************************************************************************)
(* C23.  AssignXY, OrXY, AndXY, XorXY, AssignXImm and AddXImm write VX and *)
(* nothing else (AddXImm writes (VX + NN) mod 256): VF keeps its value     *)
(* unless x = F, and every other register, I, sp, the stack, the memory    *)
(* and the framebuffer are unchanged.                                      *)
(***************************************************************************)
AboutToWriteVXOnly ==
    /\ AboutToFetch
    /\ \/ OpCls(OpcodeAt(pc)) \in {6, 7}
       \/ OpCls(OpcodeAt(pc)) = 8 /\ FieldN(OpcodeAt(pc)) \in 0..3

C23_LogicWritesOnlyVX ==
    [][AboutToWriteVXOnly =>
          LET w == OpcodeAt(pc)
              x == FieldX(w)
          IN /\ status' = "running"
             /\ \A r \in RegIds \ {x} : registers'[r] = registers[r]
             /\ x # COND_REG => registers'[COND_REG] = registers[COND_REG]
             /\ OpCls(w) = 7 => registers'[x] = (registers[x] + FieldNN(w)) % 256
             /\ UNCHANGED <<index, sp, stack, mem, display>>]_cpuVars

\* 255 + 1 in V1 has set VF; the OrXY behind it wrote V1 and left VF at 1.
C23_Witness ==
    /\ status = "running"
    /\ decoded = [op |-> "OrXY", x |-> 1, y |-> 2]
    /\ OpcodeAt(4) = ALU(1, 2, 4)
    /\ OpcodeAt(6) = ALU(1, 2, 1)
    /\ pc = 8
    /\ registers[1] = 1
    /\ registers[2] = 1
    /\ registers[COND_REG] = 1

(***************************************************************************)
(* C24.  In the classes 0xE and 0xF decode returns Unsupported(opcode) for *)
(* every word whose low byte is not one of 0x9E, 0xA1 (class E) or 0x07,   *)
(* 0x0A, 0x15, 0x18, 0x1E, 0x29, 0x33, 0x55, 0x65 (class F), with the one  *)
(* exception of 0xF000, which is Halt.                                     *)
(***************************************************************************)
\* The word that Cpu::run has decoded.
DecodedWord == OpcodeAt(pc - 2)

\* A word of class E or F has been decoded.
DecodedKeyOrMisc == decoded # NoInstruction /\ OpCls(DecodedWord) \in {14, 15}

\* The low bytes that the claim lists.
ListedLowByte(w) ==
    IF OpCls(w) = 14 THEN FieldNN(w) \in {\h9E, \hA1}
    ELSE FieldNN(w) \in {\h07, \h0A, \h15, \h18, \h1E, \h29, \h33, \h55, \h65}

C24_UnlistedLowByteUnsupported ==
    DecodedKeyOrMisc =>
        LET w == DecodedWord
        IN IF w = \hF000 THEN decoded = [op |-> "Halt"]
           ELSE ~ListedLowByte(w) => decoded = Unsupported(w)

\* C24, amended: in class F the low byte 0x17 is matched too, and decodes to
\* NoOp(opcode) for every X; every other word of the classes E and F with a
\* low byte outside the lists is Unsupported(opcode), but 0xF000, a Halt.
C24_UnlistedUnsupportedButFX17 ==
    DecodedKeyOrMisc =>
        LET w == DecodedWord
        IN IF w = \hF000 THEN decoded = [op |-> "Halt"]
           ELSE IF OpCls(w) = 15 /\ FieldNN(w) = \h17
                THEN decoded = [op |-> "NoOp", opcode |-> w]
                ELSE ~ListedLowByte(w) => decoded = Unsupported(w)

\* 0xF317 has been decoded to a NoOp.
C24_Witness ==
    /\ decoded = [op |-> "NoOp", opcode |-> \hF317]
    /\ OpcodeAt(0) = \hF317
    /\ pc = 2

(***************************************************************************)
(* C25.  For every word that decodes to an instruction with operands, the  *)
(* first register index is the bits 8..11 of the word, the second the bits *)
(* 4..7, the 8-bit immediate the low byte, the height of a draw the low    *)
(* nibble, and the address of Jump, Call, SetI and JumpV0 the low 12 bits. *)
(* Every register index is in 0..15.                                       *)
(***************************************************************************)
\* The variants of Instruction by the operands they carry.
WithSecondRegister ==
    {"AssignXY", "OrXY", "AndXY", "XorXY", "AddXY", "SubXY", "SubYX", "SkipIfEqXY",
     "SkipIfNeXY", "DispDraw"}

WithByte == {"AssignXImm", "AddXImm", "SkipIfEqX", "SkipIfNeX", "RandX"}

WithFirstRegister ==
    WithSecondRegister \cup WithByte
    \cup {"Shr1X", "Shl1X", "SkipIfKeyEqX", "SkipIfKeyNeX", "GetDelayX", "AwaitKeyX",
          "SetDelayX", "SetSoundX", "AddIX", "SpriteAddrIX", "DumpBcdIX", "RegDumpIX",
          "RegLoadIX"}

WithAddress == {"Jump", "Call", "SetI", "JumpV0"}

C25_OperandFields ==
    decoded # NoInstruction =>
        LET w == DecodedWord
        IN /\ decoded.op \in WithFirstRegister =>
                  decoded.x = (w \div 256) % 16 /\ decoded.x \in 0..15
           /\ decoded.op \in WithSecondRegister =>
                  decoded.y = (w \div 16) % 16 /\ decoded.y \in 0..15
           /\ decoded.op \in WithByte => decoded.imm = w % 256
           /\ decoded.op = "DispDraw" => decoded.imm = w % 16
           /\ decoded.op \in WithAddress => decoded.addr = w % 4096
           /\ decoded.op \in WithFirstRegister \cup WithAddress
                             \cup {"NoOp", "Unsupported", "Halt", "DispClear", "Ret"}

\* 0xDABC has been decoded: a draw at (VA, VB) of height 12.
C25_Witness ==
    /\ decoded = [op |-> "DispDraw", x |-> 10, y |-> 11, imm |-> 12]
    /\ OpcodeAt(0) = \hDABC
    /\ pc = 2

(***************************************************************************)
(* C26.  In class 0x0 decode returns Halt for 0x0000 and no other word,    *)
(* DispClear for 0x00E0 and no other, Ret for 0x00EE and no other, and     *)
(* NoOp for every other word from 0x0001 to 0x0FFF.  Executing a NoOp      *)
(* changes nothing but the program counter, which fetch has advanced by 2. *)
(* A run whose program counter reaches zero-filled memory ends with        *)
(* Ok(()).                                                                 *)
(***************************************************************************)
AboutToFetchClassZero == AboutToFetch /\ OpCls(OpcodeAt(pc)) = 0

C26_ClassZeroAndNoOp ==
    [][AboutToFetchClassZero =>
          LET w == OpcodeAt(pc)
          IN /\ decoded' = (CASE w = \h0000 -> [op |-> "Halt"]
                              [] w = \h00E0 -> [op |-> "DispClear"]
                              [] w = \h00EE -> [op |-> "Ret"]
                              [] OTHER -> [op |-> "NoOp", opcode |-> w])
             /\ w = \h0000 => status' = "ok" /\ error' = error
             /\ w \notin {\h0000, \h00E0, \h00EE} =>
                    /\ status' = "running"
                    /\ pc' = pc + 2
                    /\ UNCHANGED <<registers, index, sp, stack, mem, display, pressed,
                                   delay, sound, error>>]_cpuVars

\* The NoOp 0x0123 at address 0 changed nothing, and the zero word behind it
\* ended the run with Ok(()).
C26_Witness ==
    /\ status = "ok"
    /\ decoded = [op |-> "Halt"]
    /\ OpcodeAt(0) = \h0123
    /\ pc = 4
    /\ registers = CpuNew.registers
    /\ index = 0
    /\ sp = 0

(***************************************************************************)
(* C27.  Every pixel of the framebuffer is 0 or 1 in every reachable       *)
(* state.  After DispClear all 64 x 32 pixels are 0, whatever they were,   *)
(* and the registers (VF among them), I, the stack and the memory are      *)
(* unchanged.                                                              *)
(***************************************************************************)
AboutToClear == AboutToFetch /\ OpcodeAt(pc) = \h00E0

\* Every pixel of the grid d is 0 or 1.
PixelsAreBits(d) ==
    \A row \in 0..(HEIGHT - 1) : \A col \in 0..(WIDTH - 1) :
        pixel_at(d, row, col) \in {0, 1}

C27_PixelsAreBitsAndClear ==
    /\ [](PixelsAreBits(display) /\ DOMAIN display \subseteq (0..(HEIGHT - 1)) \X (0..(WIDTH - 1)))
    /\ [][AboutToClear =>
             /\ status' = "running"
             /\ \A row \in 0..(HEIGHT - 1) : \A col \in 0..(WIDTH - 1) :
                    pixel_at(display', row, col) = 0
             /\ UNCHANGED <<registers, index, sp, stack, mem>>]_cpuVars

\* In a subroutine a sprite was drawn on the empty grid, which set VF, and
\* the display was cleared: the grid is empty, VF is still 1 and the return
\* address is still on the stack.
C27_Witness ==
    /\ status = "running"
    /\ decoded = [op |-> "DispClear"]
    /\ OpcodeAt(8) = DRW(1, 2, 3)
    /\ OpcodeAt(10) = CLS
    /\ pc = 12
    /\ display = DisplayNew
    /\ registers[COND_REG] = 1
    /\ registers[3] = 9
    /\ index = \h300
    /\ sp = 1
    /\ stack[0] = 4

(***************************************************************************)
(* C28.  SkipIfKeyEqX skips the next instruction only when a key is        *)
(* pressed and equals VX; SkipIfKeyNeX skips when no key is pressed or the *)
(* pressed key differs from VX.  With no key pressed (after AwaitKeyX took *)
(* it) SkipIfKeyEqX does not skip for any VX, 0 included.                  *)
(***************************************************************************)
AboutToSkipIfKey(low) ==
    AboutToFetch /\ OpCls(OpcodeAt(pc)) = 14 /\ FieldNN(OpcodeAt(pc)) = low

\* A key is pressed and it is the value of VX, X from the word about to be
\* fetched.
KeyPressedIsVX == pressed # <<>> /\ pressed[1] = registers[FieldX(OpcodeAt(pc))]

C28_KeySkipsNeedPressedKey ==
    /\ [][AboutToSkipIfKey(\h9E) =>
             /\ status' = "running"
             /\ pc' = (IF KeyPressedIsVX THEN pc + 4 ELSE pc + 2)]_cpuVars
    /\ [][AboutToSkipIfKey(\hA1) =>
             /\ status' = "running"
             /\ pc' = (IF KeyPressedIsVX THEN pc + 2 ELSE pc + 4)]_cpuVars

(***************************************************************************)
(* C29.  A GetDelayX executed after a SetDelayX that wrote v never sees    *)
(* the counter as it was before that set: it reads v less the ticks        *)
(* applied to it since (not below 0).  A program that sets the delay to    *)
(* v > 0 and reads it at once cannot read a stale 0.                       *)
(***************************************************************************)
AboutToGetDelay ==
    AboutToFetch /\ OpCls(OpcodeAt(pc)) = 15 /\ FieldNN(OpcodeAt(pc)) = \h07

\* The counter of t once every value sent to it has been received: the value
\* sent last or, with none on the way, the counter as it is.
AfterLastSet(t) == IF t.updates = <<>> THEN t.ticks ELSE t.updates[Len(t.updates)]

C29_GetDelaySeesLastSet ==
    [][AboutToGetDelay =>
          registers'[FieldX(OpcodeAt(pc))] = AfterLastSet(delay)]_cpuVars

(***************************************************************************)
(* C30.  The counter of a timer is written by the thread of its tick loop  *)
(* only.  The loop applies the values set in the order they were set; a    *)
(* tick takes exactly 1 from a counter above 0 and leaves a counter of 0   *)
(* at 0: the counter never wraps to 255, and no value set is lost to a     *)
(* tick.  Under fair scheduling, once no further value is set, the counter *)
(* reaches 0 and stays 0.                                                  *)
(***************************************************************************)
\* A step of the processor: Timer::set sends v behind the values on the way.
IssuesSet(t, u) == cpuVars' # cpuVars /\ \E v \in Byte : u = [t EXCEPT !.updates = Append(@, v)]

\* A step of the tick loop that receives the oldest value on the way.
AppliesSet(t, u) ==
    /\ cpuVars' = cpuVars
    /\ t.updates # <<>>
    /\ u = [ticks |-> Head(t.updates), updates |-> Tail(t.updates)]

\* A step of the tick loop on a tick, that changes the counter.
AppliesTick(t, u) ==
    cpuVars' = cpuVars /\ t.ticks > 0 /\ u = [t EXCEPT !.ticks = @ - 1]

\* Every step that changes the timer t to u is one of the three.
TimerSteps(t, u) == u # t => IssuesSet(t, u) \/ AppliesSet(t, u) \/ AppliesTick(t, u)

\* The processor sets the delay timer.
IssuesDelaySet == Len(delay.updates') > Len(delay.updates)

C30_TickLoopOwnsCounter ==
    /\ [](delay.ticks \in Byte /\ sound.ticks \in Byte)
    /\ [][TimerSteps(delay, delay') /\ TimerSteps(sound, sound')]_vars
    /\ ([]<><<IssuesDelaySet>>_vars) \/ <>[](delay.ticks = 0)

\* The delay was set to 2 and read as 1, a tick after the value was
\* received; another tick has brought the counter to 0.
C30_Witness ==
    /\ status = "ok"
    /\ OpcodeAt(0) = LD(1, 2)
    /\ OpcodeAt(2) = FX(1, \h15)
    /\ OpcodeAt(4) = FX(2, \h07)
    /\ registers[2] = 1
    /\ delay = [ticks |-> 0, updates |-> <<>>]
====
